---- MODULE Spec2Model ----
(***************************************************************************)
(* A model of the envelope core of data-guardian: chunk-nonce derivation,  *)
(* Shamir secret sharing, the framed chunk reader/writer, the hybrid       *)
(* encryptor/decryptor and the streaming encryptor/decryptor.              *)
(*                                                                         *)
(* Conventions.                                                            *)
(*  - An optional value (Python None or a value) is a sequence: <<>> is    *)
(*    None and <<v>> is the value v.                                       *)
(*  - A byte string whose content is produced by a cryptographic primitive *)
(*    is a symbolic term: an AEAD ciphertext records the key, nonce,       *)
(*    associated data and plaintext it was sealed with, and opens only     *)
(*    under the same key, nonce and associated data.                       *)
(*  - A 32-bit unsigned integer is a pair of 16-bit limbs <<hi, lo>> where *)
(*    its full width matters (the chunk counter of a nonce).               *)
(*  - The key manager handed to a service is its environment: which        *)
(*    private keys it can load is an input (keysAvail).                    *)
(***************************************************************************)
EXTENDS Integers, Sequences, FiniteSets, TLC

VARIABLES
    \* ---- chunk-nonce derivation (crypto/symmetric.py, services/stream.py)
    nBase,      \* the 12-byte base nonce
    nIndex,     \* the chunk index, a u32 as <<hi, lo>>
    nOut,       \* derive_chunk_nonce(nBase, nIndex), <<>> before the call
    nStream,    \* the nonce the streaming writer/reader computes, <<>> before
    nPc,        \* "off" | "start" | "derived" | "done"
    \* ---- Shamir secret sharing (crypto/threshold.py)
    shSecret,   \* the secret handed to split_secret, a byte string
    shN,        \* n, the number of shares asked for
    shK,        \* k, the threshold
    shShares,   \* the list split_secret returned
    shPick,     \* the shares the caller hands to combine_shares
    shOut,      \* what combine_shares returned
    shPc,       \* "off" | "start" | "split" | "picked" | "combined" | "error"
    \* ---- the framed chunk stream at byte level (storage/file_io.py)
    ckFrames,   \* the <<index, payload>> pairs write_chunk was called with
    ckSink,     \* the bytes write_chunk wrote, in order
    ckCut,      \* the offset the stream was cut at
    ckPos,      \* the read position of the handle given to iter_chunks
    ckYield,    \* the <<index, payload>> pairs iter_chunks yielded so far
    ckErr,      \* the exception raised, "" if none
    ckPc,       \* "off" | "writing" | "reading" | "returned" | "raised"
    \* ---- envelope files (services/encryptor.py, decryptor.py, stream.py)
    plain,      \* the bytes of the input file given to encrypt_file
    encArgs,    \* the arguments of the encrypt_file call
    encLoc,     \* encrypt_file's locals (cek, base_nonce, header, aad_material, pos, index, wrote)
    encPc,      \* "off" | "call" | "open" | "loop" | "done" | "raised"
    encErr,     \* the exception encrypt_file raised, "" if none
    envFile,    \* the output path: [exists, header (optional JSON object), body (frames)]
    keysAvail,  \* the kids whose private key the decryptor's key manager can load
    decLoc,     \* decrypt_file's locals (header, enc, aead_name, content_nonce, thresh, idx, cek, shares, tried)
    decPc,      \* "off" | "idle" | "try" | "finish" | "chunks" | "done" | "raised"
    decErr,     \* the exception decrypt_file raised, "" if none
    decOut,     \* the decrypted output file: None if never written, else <<bytes>>
    \* ---- envelope headers on their own (storage/header.py)
    hdrIn,      \* the FileHeader a writer holds
    hdrNames,   \* the fields the writer of the file spells with their legacy name
    hdrBy,      \* who wrote the file: "" | "to_json" | "legacy"
    hdrRaw,     \* the header JSON of the file, <<>> before it is written
    hdrNow,     \* what time.time() returned inside from_json, 0 before
    hdrParsed,  \* what FileHeader.from_json returned or raised, <<>> before
    hdrRaw2,    \* to_json() of the parsed header, <<>> before
    hdrFirst,   \* how decrypt_file ended on the file as written, <<>> before
    hdrPc,      \* "off" | "start" | "written" | "parsed" | "rejected" | "rewritten" | "again" | "raised"
    \* ---- the key stores (storage/keystore.py, core/keystore.py, policy/policy.py)
    ksPub,      \* keys/<kid>_pub.pem per kid: None, or <<[pem, mode]>>
    ksPriv,     \* keys/<kid>_priv.enc per kid: None, or <<[blob, mode]>>
    ksIndex,    \* the "keys" list of keys.json
    ksOp,       \* the last call: [op, kid, arg, err, ret, before]
    fkFiles,    \* FileKeyStore's <key_id>.pem per key_id: None, or <<[pem, mode]>>
    \* ---- detached signatures (services/signer_service.py, crypto/signer.py)
    sgData,     \* the bytes of the file at input_path
    sgSig,      \* the text of the file at sig_path, None before it is written
    sgMeta,     \* the text of the sidecar sig_path + ".json", None before
    sgSigned,   \* what the last sign wrote: None, or <<[kid, data, sig]>>
    sgOp,       \* the last call: [op, err, ret]
    \* ---- the JSON-RPC server (dg_core/ipc/server.py, ipc/transport.py)
    ipcOffline, \* config.network.policy_only_offline
    ipcWaits,   \* whether Server.wait_closed() of the interpreter waits for open connections
    ipcShutdown,\* the _shutdown event is set
    ipcServe,   \* serve_forever: "off" | "waiting" | "closing" | "clients" | "returned"
    ipcConn,    \* per connection: [pos, open, peer, inbox, log]
    ipcRan,     \* the engines that were run: a subset of {"core.scan", "core.redact"}
    \* ---- path validation (dg_core/utils/validation.py)
    pvArgs,     \* the arguments of resolve_and_check_path, None when off
    pvOut,      \* None before the call, then <<[ret |-> path]>> or <<[err |-> message]>>
    \* ---- the log fan-out (dg_core/daemon/log_stream.py)
    lsLoop,     \* "off" | "none" (no loop attached) | "attached"
    lsMaxQueue, \* max_queue
    lsBacklog,  \* _backlog
    lsPending,  \* _pending
    lsCalls,    \* the _dispatch callbacks call_soon_threadsafe queued, in order
    lsSubs,     \* per subscription: [registered, closed, queue, got]
    lsCount     \* the number of records published so far

nonceVars == <<nBase, nIndex, nOut, nStream, nPc>>

shamirVars == <<shSecret, shN, shK, shShares, shPick, shOut, shPc>>

chunkVars == <<ckFrames, ckSink, ckCut, ckPos, ckYield, ckErr, ckPc>>

envVars == <<plain, encArgs, encLoc, encPc, encErr, envFile, keysAvail, decLoc, decPc, decErr, decOut>>

hdrVars == <<hdrIn, hdrNames, hdrBy, hdrRaw, hdrNow, hdrParsed, hdrRaw2, hdrFirst, hdrPc>>

\* the parts added to the first four
ksVars == <<ksPub, ksPriv, ksIndex, ksOp, fkFiles>>

sgVars == <<sgData, sgSig, sgMeta, sgSigned, sgOp>>

\* the parts that stand alone
ipcVars == <<ipcOffline, ipcWaits, ipcShutdown, ipcServe, ipcConn, ipcRan>>

pvVars == <<pvArgs, pvOut>>

lsVars == <<lsLoop, lsMaxQueue, lsBacklog, lsPending, lsCalls, lsSubs, lsCount>>

restVars == <<sgVars, ipcVars, pvVars, lsVars>>

moreVars == <<hdrVars, ksVars, restVars>>

vars == <<nonceVars, shamirVars, chunkVars, envVars, moreVars>>

\* what the actions of one part leave alone
notNonce == <<shamirVars, chunkVars, envVars, moreVars>>

notShamir == <<nonceVars, chunkVars, envVars, moreVars>>

notChunk == <<nonceVars, shamirVars, envVars, moreVars>>

notEnv == <<nonceVars, shamirVars, chunkVars, moreVars>>

notHdr == <<nonceVars, shamirVars, chunkVars, ksVars, restVars>>

notKs == <<nonceVars, shamirVars, chunkVars, envVars, hdrVars, restVars>>

\* the signer works on the key store
notSg == <<nonceVars, shamirVars, chunkVars, envVars, hdrVars, ipcVars, pvVars, lsVars>>

notIpc == <<nonceVars, shamirVars, chunkVars, envVars, hdrVars, ksVars, sgVars, pvVars, lsVars>>

notPv == <<nonceVars, shamirVars, chunkVars, envVars, hdrVars, ksVars, sgVars, ipcVars, lsVars>>

notLs == <<nonceVars, shamirVars, chunkVars, envVars, hdrVars, ksVars, sgVars, ipcVars, pvVars>>

(***************************************************************************)
(* Optional values.                                                        *)
(***************************************************************************)
None == <<>>

Some(v) == <<v>>

IsNone(o) == o = <<>>

(***************************************************************************)
(* Bytes and 32-bit integers.                                              *)
(***************************************************************************)
RECURSIVE XorBits(_, _, _)
\* a ^ b on the low n bits
XorBits(a, b, n) ==
    IF n = 0 THEN 0
    ELSE (((a % 2) + (b % 2)) % 2) + 2 * XorBits(a \div 2, b \div 2, n - 1)

XorByte(a, b) == XorBits(a, b, 8)

\* int.from_bytes(b, "big") of four bytes, as limbs <<hi, lo>>
U32FromBytes(b) == <<b[1] * 256 + b[2], b[3] * 256 + b[4]>>

\* u.to_bytes(4, "big")
U32ToBytes(u) == <<u[1] \div 256, u[1] % 256, u[2] \div 256, u[2] % 256>>

\* (a + b) % 2**32 on limbs
U32Add(a, b) ==
    LET lo == a[2] + b[2]
        hi == a[1] + b[1] + (lo \div 65536)
    IN  <<hi % 65536, lo % 65536>>

\* a small non-negative integer as a u32
U32(i) == <<i \div 65536, i % 65536>>

NONCE_SIZE == 12

(***************************************************************************)
(* crypto/symmetric.py: derive_chunk_nonce.  The index is a u32, so the    *)
(* range check 0 <= chunk_index < MAX_CHUNKS holds of every value the      *)
(* model passes; the length check is kept.                                 *)
(***************************************************************************)
derive_chunk_nonce_xor(base_nonce, chunk_index) ==
    LET ib == U32ToBytes(chunk_index)
    IN  [i \in 1..Len(base_nonce) |->
            IF i <= Len(base_nonce) - 4 THEN base_nonce[i]
            ELSE XorByte(base_nonce[i], ib[i - (Len(base_nonce) - 4)])]

derive_chunk_nonce_clamped(base_nonce, chunk_index) ==
    LET prefix  == SubSeq(base_nonce, 1, Len(base_nonce) - 4)
        counter == U32FromBytes(SubSeq(base_nonce, Len(base_nonce) - 3, Len(base_nonce)))
        lo      == counter[2] + chunk_index[2]
        hi      == counter[1] + chunk_index[1] + (lo \div 65536)
    IN  prefix \o U32ToBytes(IF hi >= 65536 THEN <<65535, 65535>> ELSE <<hi, lo % 65536>>)

derive_chunk_nonce(base_nonce, chunk_index) ==
    IF Len(base_nonce) # NONCE_SIZE THEN <<"ValueError">>
    ELSE
        LET prefix      == SubSeq(base_nonce, 1, Len(base_nonce) - 4)
            counter     == U32FromBytes(SubSeq(base_nonce, Len(base_nonce) - 3, Len(base_nonce)))
            new_counter == U32Add(counter, chunk_index)
        IN  prefix \o U32ToBytes(new_counter)

(***************************************************************************)
(* services/stream.py: the nonce of chunk idx in StreamEncryptor and       *)
(* StreamDecryptor: base[-1 - i] ^= (idx >> (8 * i)) & 0xFF for i in 0..3. *)
(***************************************************************************)
StreamChunkNonce(content_nonce, idx) ==
    LET ib == U32ToBytes(idx)   \* ib[4 - i] = (idx >> (8 * i)) & 0xFF
        n  == Len(content_nonce)
    IN  [j \in 1..n |->
            IF j <= n - 4 THEN content_nonce[j]
            ELSE XorByte(content_nonce[j], ib[4 - (n - j)])]

(***************************************************************************)
(* crypto/threshold.py: Shamir secret sharing.  The source works on        *)
(* 32-byte secrets over the secp256k1 field prime P = 2^256 - 2^32 - 977,  *)
(* the integers of the model checker are 32 bits wide, so the model keeps  *)
(* the arithmetic and scales the width: a secret is SECRET_LEN = 1 byte    *)
(* and P is 251, a prime just below 2^(8 * SECRET_LEN) as the source's P   *)
(* is a prime just below 2^256.                                            *)
(***************************************************************************)
SECRET_LEN == 1

P == 251

RECURSIVE IntFromBytes(_)
\* int.from_bytes(b, "big")
IntFromBytes(b) ==
    IF Len(b) = 0 THEN 0
    ELSE 256 * IntFromBytes(SubSeq(b, 1, Len(b) - 1)) + b[Len(b)]

RECURSIVE IntToBytes(_, _)
\* int(v).to_bytes(n, "big"); OverflowError when v does not fit
IntToBytes(v, n) ==
    IF n = 0 THEN (IF v = 0 THEN <<>> ELSE <<"OverflowError">>)
    ELSE LET rest == IntToBytes(v \div 256, n - 1)
         IN  IF rest = <<"OverflowError">> THEN rest ELSE Append(rest, v % 256)

RECURSIVE ModPow(_, _, _)
\* pow(a, e, p)
ModPow(a, e, p) ==
    IF e = 0 THEN 1 % p
    ELSE LET h == ModPow(a, e \div 2, p)
             q == (h * h) % p
         IN  IF e % 2 = 1 THEN (q * (a % p)) % p ELSE q

modinv(a, p) == ModPow(a, p - 2, p)

RECURSIVE EvalPolyFrom(_, _, _, _, _)
\* the loop of _eval_poly from coefficient i on, with accumulators y and xp
EvalPolyFrom(coeffs, x, i, y, xp) ==
    IF i > Len(coeffs) THEN y
    ELSE EvalPolyFrom(coeffs, x, i + 1, (y + coeffs[i] * xp) % P, (xp * x) % P)

eval_poly(coeffs, x) == EvalPolyFrom(coeffs, x, 1, 0, 1)

\* split_secret's guards, in the order of the source
split_secret_error(secret, n, k) ==
    IF Len(secret) # SECRET_LEN THEN "ValueError: Secret must be 32 bytes"
    ELSE IF ~(1 < k /\ k <= n /\ n <= 255) THEN "ValueError: Invalid (k, n)"
    ELSE "none"

\* split_secret(secret, n, k) where rnd are the k - 1 values os.urandom gave,
\* each already reduced modulo P
split_secret(secret, n, k, rnd) ==
    LET s      == IntFromBytes(secret) % P
        coeffs == <<s>> \o rnd
    IN  [x \in 1..n |-> <<x, eval_poly(coeffs, x)>>]

RECURSIVE LagrangeNumDen(_, _, _, _, _, _)
\* the inner loop of combine_shares: <<num, den>> for index j
LagrangeNumDen(x_s, k, j, m, num, den) ==
    IF m > k THEN <<num, den>>
    ELSE IF m = j THEN LagrangeNumDen(x_s, k, j, m + 1, num, den)
    ELSE LagrangeNumDen(x_s, k, j, m + 1,
                        (num * ((0 - x_s[m]) % P)) % P,
                        ((den * (x_s[j] - x_s[m])) % P) % P)

RECURSIVE LagrangeSum(_, _, _, _, _)
LagrangeSum(x_s, y_s, k, j, s) ==
    IF j > k THEN s
    ELSE LET nd == LagrangeNumDen(x_s, k, j, 1, 1, 1)
             lj == (nd[1] * modinv(nd[2], P)) % P
         IN  LagrangeSum(x_s, y_s, k, j + 1, (s + y_s[j] * lj) % P)

\* combine_shares(shares, k)
combine_shares(shares, k) ==
    IF Len(shares) < k THEN <<"ValueError: Not enough shares">>
    ELSE LET x_s == [i \in 1..k |-> shares[i][1]]
             y_s == [i \in 1..k |-> shares[i][2]]
         IN  IntToBytes(LagrangeSum(x_s, y_s, k, 1, 0), SECRET_LEN)

(***************************************************************************)
(* storage/file_io.py: the frame writer and reader, on bytes.              *)
(***************************************************************************)
\* a u32 <<hi, lo>> as an integer (the values of the model fit)
U32Int(u) == u[1] * 65536 + u[2]

\* CHUNK_STRUCT.size, the 8 bytes of struct.Struct(">II")
CHUNK_STRUCT_SIZE == 8

\* CHUNK_STRUCT.pack(length, index)
ChunkStructPack(length, index) == U32ToBytes(U32(length)) \o U32ToBytes(U32(index))

\* CHUNK_STRUCT.unpack(b) = <<length, index>>
ChunkStructUnpack(b) ==
    <<U32Int(U32FromBytes(SubSeq(b, 1, 4))), U32Int(U32FromBytes(SubSeq(b, 5, 8)))>>

\* handle.read(n) at position pos: at most n bytes, fewer at the end of the file
HandleRead(stream, pos, n) ==
    SubSeq(stream, pos + 1, IF pos + n <= Len(stream) THEN pos + n ELSE Len(stream))

\* write_chunk's guard: index < 0 or index >= 2**32
write_chunk_error(index) ==
    IF index < 0 \/ (index \div 65536) >= 65536 THEN "ValueError" ELSE "none"

\* the bytes write_chunk(handle, index, payload) appends
write_chunk(index, payload) == ChunkStructPack(Len(payload), index) \o payload

\* one turn of iter_chunks' loop at position pos: what it does (return, raise
\* or yield), the pair yielded and the position after
iter_chunks_unchecked(stream, pos) ==
    LET chunk_header == HandleRead(stream, pos, CHUNK_STRUCT_SIZE)
    IN  IF Len(chunk_header) = 0 THEN [kind |-> "return", pos |-> pos]
        ELSE IF Len(chunk_header) # CHUNK_STRUCT_SIZE
             THEN [kind |-> "raise", err |-> "InvalidHeader: Truncated chunk header",
                   pos |-> pos + Len(chunk_header)]
        ELSE LET li      == ChunkStructUnpack(chunk_header)
                 payload == HandleRead(stream, pos + CHUNK_STRUCT_SIZE, li[1])
             IN  [kind |-> "yield", index |-> li[2], payload |-> payload,
                  pos |-> pos + CHUNK_STRUCT_SIZE + Len(payload)]

iter_chunks(stream, pos) ==
    LET chunk_header == HandleRead(stream, pos, CHUNK_STRUCT_SIZE)
    IN  IF Len(chunk_header) = 0 THEN [kind |-> "return", pos |-> pos]
        ELSE IF Len(chunk_header) # CHUNK_STRUCT_SIZE
             THEN [kind |-> "raise", err |-> "InvalidHeader: Truncated chunk header",
                   pos |-> pos + Len(chunk_header)]
        ELSE LET li      == ChunkStructUnpack(chunk_header)
                 payload == HandleRead(stream, pos + CHUNK_STRUCT_SIZE, li[1])
             IN  IF Len(payload) # li[1]
                 THEN [kind |-> "raise", err |-> "InvalidHeader: Truncated ciphertext chunk",
                       pos |-> pos + CHUNK_STRUCT_SIZE + Len(payload)]
                 ELSE [kind |-> "yield", index |-> li[2], payload |-> payload,
                       pos |-> pos + CHUNK_STRUCT_SIZE + Len(payload)]

(***************************************************************************)
(* utils/config.py: the configuration defaults the services read.          *)
(***************************************************************************)
CONFIG_crypto_aead == "AESGCM"

CONFIG_crypto_rsa_oaep_hash == "SHA256"

CONFIG_crypto_default_chunk_size == 1048576

\* str.upper() on the names the model uses
Upper(str) ==
    CASE str = "aesgcm" -> "AESGCM"
      [] str = "chacha20" -> "CHACHA20"
      [] str = "rsa-oaep" -> "RSA-OAEP"
      [] str = "x25519-kem" -> "X25519-KEM"
      [] str = "sha512" -> "SHA512"
      [] OTHER -> str

\* Python truthiness of an optional string and of an optional integer
TruthyStr(o) == o # <<>> /\ o[1] # ""

TruthyInt(o) == o # <<>> /\ o[1] # 0

\* d.get(key): None when the key is absent
DictGet(d, key) == IF key \in DOMAIN d THEN <<d[key]>> ELSE <<>>

(***************************************************************************)
(* utils/b64e.py, utils/b64d.py and decryptor._b64d: URL-safe Base64 text  *)
(* of a byte string (padding stripped) and back (padding restored).  The   *)
(* text is a term naming the bytes; decoding any other text raises.        *)
(***************************************************************************)
b64e(data) == [kind |-> "b64", data |-> data]

b64d(value) ==
    IF "kind" \in DOMAIN value /\ value.kind = "b64" THEN <<value.data>> ELSE <<>>

\* "not text" for a Base64 text, and the truthiness of an optional one
TextEmpty(text) == DOMAIN text.data = {}

TruthyText(o) == o # <<>> /\ ~TextEmpty(o[1])

\* the truthiness of an optional dict
TruthyDict(o) == o # <<>> /\ DOMAIN o[1] # {}

\* hashlib.sha256(data).digest()
sha256(data) == [kind |-> "sha256", data |-> data]

(***************************************************************************)
(* crypto/symmetric.py: the AEAD primitives.  A ciphertext is the term of  *)
(* what was sealed; its length is the plaintext's plus the 16-byte tag; it *)
(* opens (Some plaintext) only under the same key, nonce and associated    *)
(* data, and None stands for cryptography's InvalidTag.  Bytes that are    *)
(* not the output of a seal (a run of frames, for one) never open.         *)
(***************************************************************************)
TAG_LEN == 16

SUPPORTED_AEAD == {"AESGCM", "CHACHA20"}

\* aead_factory / gen_key_for / gen_nonce_for: ValueError on an unknown name
aead_factory_error(name) ==
    IF Upper(name) \in SUPPORTED_AEAD THEN "none" ELSE "ValueError: Unsupported AEAD"

\* AesGcm(key).encrypt(nonce, pt, aad) / ChaCha20(key).encrypt(nonce, pt, aad)
AeadEncrypt(alg, key, nonce, pt, aad) ==
    [kind |-> "aead", alg |-> Upper(alg), key |-> key, nonce |-> nonce, aad |-> aad, pt |-> pt]

\* len(ciphertext)
AeadLen(ct) == Len(ct.pt) + TAG_LEN

\* .decrypt(nonce, data, aad)
AeadDecrypt(alg, key, nonce, data, aad) ==
    IF /\ data.kind = "aead"
       /\ data.alg = Upper(alg)
       /\ data.key = key
       /\ data.nonce = nonce
       /\ data.aad = aad
    THEN <<data.pt>> ELSE <<>>

(***************************************************************************)
(* crypto/asymmetric.py: RSA-OAEP key wrap.  The wrapped key names the     *)
(* recipient key pair and the OAEP hash; it unwraps only with that pair's  *)
(* private key and the same hash.                                          *)
(***************************************************************************)
OAEP_HASHES == {"SHA1", "SHA256", "SHA512"}

\* _hash_alg
hash_alg_error(name) ==
    IF Upper(name) \in OAEP_HASHES THEN "none" ELSE "ValueError: Unsupported OAEP hash"

\* RsaKeyPair(public = key of kid).wrap_key(data, oaep_hash)
wrap_key(kid, data, oaep_hash) ==
    [kind |-> "rsa", kid |-> kid, hash |-> Upper(oaep_hash), m |-> data]

\* RsaKeyPair(private = key of kid).unwrap_key(ct, oaep_hash): Some key, or
\* None for the exception a wrong key, hash or ciphertext raises
unwrap_key(kid, ct, oaep_hash) ==
    IF /\ hash_alg_error(oaep_hash) = "none"
       /\ ct.kind = "rsa"
       /\ ct.kid = kid
       /\ ct.hash = Upper(oaep_hash)
    THEN <<ct.m>> ELSE <<>>

(***************************************************************************)
(* crypto/ecc.py: X25519 KEM.  epk names the ephemeral key pair; the KEK   *)
(* both sides derive names the recipient pair and the ephemeral pair.      *)
(***************************************************************************)
X25519Kek(kid, epk) == [kind |-> "kek", kid |-> kid, epk |-> epk]

\* wrap_cek_for_recipient(public key of kid, cek, aead=aead) where epk and
\* nonce are the fresh ephemeral key and the os.urandom(12) nonce
wrap_cek_for_recipient(kid, cek, aead, epk, nonce) ==
    [epk_pem |-> [kind |-> "pem", epk |-> epk],
     ct      |-> AeadEncrypt(aead, X25519Kek(kid, epk), nonce, cek, [kind |-> "raw", epk |-> epk]),
     nonce   |-> nonce,
     aead    |-> aead]

\* unwrap_cek(private key of kid, wrap): Some cek, or None for an exception
unwrap_cek(kid, wrap) ==
    IF wrap.epk_pem.kind # "pem" \/ aead_factory_error(wrap.aead) # "none" THEN <<>>
    ELSE LET epk == wrap.epk_pem.epk
         IN  AeadDecrypt(wrap.aead, X25519Kek(kid, epk), wrap.nonce, wrap.ct,
                         [kind |-> "raw", epk |-> epk])

(***************************************************************************)
(* storage/header.py: Recipient and FileHeader.  A dataclass instance is a *)
(* record of all its fields (optional ones as None / Some); the dict that  *)
(* to_dict builds is a record holding only the keys it sets; the JSON text *)
(* of a dict is the term json(dict).                                       *)
(***************************************************************************)
HEADER_VERSION == "1"

SUPPORTED_ENC == {"RSA-OAEP", "X25519-KEM"}

\* Recipient(kid=, scheme=, enc_key=, ephemeral_public=, nonce=, share_index=)
Recipient(kid, scheme, enc_key, ephemeral_public, nonce, share_index) ==
    [kid |-> kid, scheme |-> scheme, enc_key |-> enc_key,
     ephemeral_public |-> ephemeral_public, nonce |-> nonce, share_index |-> share_index]

\* Recipient.validate: the InvalidHeader it raises, "none" if it returns
RecipientValidate(r) ==
    IF r.scheme \notin SUPPORTED_ENC THEN "InvalidHeader: Unsupported key wrap scheme"
    ELSE IF TextEmpty(r.enc_key) THEN "InvalidHeader: Recipient missing wrapped key material"
    ELSE IF r.scheme = "X25519-KEM"
         THEN (IF ~TruthyText(r.ephemeral_public) \/ ~TruthyText(r.nonce)
               THEN "InvalidHeader: X25519 recipient missing metadata" ELSE "none")
         ELSE (IF TruthyText(r.ephemeral_public) \/ TruthyText(r.nonce)
               THEN "InvalidHeader: RSA recipient should not carry X25519 metadata" ELSE "none")

\* Recipient.to_dict
RecipientToDict(r) ==
    [kid |-> r.kid, scheme |-> r.scheme, ek |-> r.enc_key]
    @@ (IF TruthyText(r.ephemeral_public) THEN [epk |-> r.ephemeral_public[1]] ELSE <<>>)
    @@ (IF TruthyText(r.nonce) THEN [nonce |-> r.nonce[1]] ELSE <<>>)
    @@ (IF r.share_index # <<>> THEN [share_index |-> r.share_index[1]] ELSE <<>>)

\* the first error recipient.validate() raises over the list, "none" if none
RECURSIVE RecipientsValidate(_, _)
RecipientsValidate(recipients, i) ==
    IF i > Len(recipients) THEN "none"
    ELSE IF RecipientValidate(recipients[i]) # "none" THEN RecipientValidate(recipients[i])
    ELSE RecipientsValidate(recipients, i + 1)

\* FileHeader.validate: the InvalidHeader it raises, "none" if it returns
FileHeaderValidate(h) ==
    IF h.version = "" THEN "InvalidHeader: Missing header version"
    ELSE IF h.version # HEADER_VERSION THEN "InvalidHeader: Unsupported header version"
    ELSE IF h.aead \notin SUPPORTED_AEAD THEN "InvalidHeader: Unsupported AEAD"
    ELSE IF h.enc \notin SUPPORTED_ENC THEN "InvalidHeader: Unsupported key wrap"
    ELSE IF TextEmpty(h.nonce) THEN "InvalidHeader: Missing content nonce"
    ELSE IF h.recipients = <<>> THEN "InvalidHeader: Header contains no recipients"
    ELSE IF RecipientsValidate(h.recipients, 1) # "none" THEN RecipientsValidate(h.recipients, 1)
    ELSE IF h.chunked /\ (h.chunk_size = <<>> \/ h.chunk_size[1] <= 0)
         THEN "InvalidHeader: Invalid chunk_size for chunked ciphertext"
    ELSE "none"

\* FileHeader.to_dict, after validate() returned
FileHeaderToDict(h) ==
    [version |-> h.version, aead |-> h.aead, enc |-> h.enc, nonce |-> h.nonce,
     created_at |-> h.created_at, chunked |-> h.chunked,
     recipients |-> [i \in 1..Len(h.recipients) |-> RecipientToDict(h.recipients[i])]]
    @@ (IF h.chunk_size # <<>> THEN [chunk_size |-> h.chunk_size[1]] ELSE <<>>)
    @@ (IF h.total_size # <<>> THEN [total_size |-> h.total_size[1]] ELSE <<>>)
    @@ (IF TruthyInt(h.threshold) THEN [threshold |-> h.threshold[1]] ELSE <<>>)
    @@ (IF TruthyText(h.aad_tag) THEN [aad_tag |-> h.aad_tag[1]] ELSE <<>>)
    @@ (IF TruthyDict(h.kdf) THEN [kdf |-> h.kdf[1]] ELSE <<>>)
    @@ (IF TruthyText(h.salt) THEN [salt |-> h.salt[1]] ELSE <<>>)

\* json.dumps(obj, separators=(",", ":"), sort_keys=True) and json.loads
json_dumps(obj) == [kind |-> "json", obj |-> obj]

json_loads(text) == text.obj

\* FileHeader.to_json
FileHeaderToJson(h) == json_dumps(FileHeaderToDict(h))

\* FileHeader.aad_bytes: the canonical JSON of the fields the header binds,
\* those that are None left out
aad_bytes(h) ==
    json_dumps(
        [version |-> h.version, aead |-> h.aead, enc |-> h.enc, nonce |-> h.nonce,
         created_at |-> h.created_at, chunked |-> h.chunked]
        @@ (IF h.chunk_size # <<>> THEN [chunk_size |-> h.chunk_size[1]] ELSE <<>>)
        @@ (IF h.threshold # <<>> THEN [threshold |-> h.threshold[1]] ELSE <<>>)
        @@ (IF h.salt # <<>> THEN [salt |-> h.salt[1]] ELSE <<>>))

(***************************************************************************)
(* services/encryptor.py: HybridEncryptor.encrypt_file, its pure parts.    *)
(* The key manager is the caller's: it loads the public key of the kids in *)
(* PublicKids and raises for any other.                                    *)
(***************************************************************************)
PublicKids == {"r1", "r2"}

\* km.load_rsa_public(kid) / km.load_x25519_public(kid): the exception, or "none"
load_public_error(kid) ==
    IF kid \in PublicKids THEN "none" ELSE "FileNotFoundError: Public key not found"

write_chunk_sealed_swapped(index, payload) ==
    [head |-> ChunkStructPack(index, AeadLen(payload)), payload |-> payload]

\* the bytes write_chunk(handle, index, payload) appends for a sealed payload:
\* the packed (length, index) pair, then the payload
write_chunk_sealed(index, payload) ==
    [head |-> ChunkStructPack(AeadLen(payload), index), payload |-> payload]

\* lines 67-99, one turn of the loop for recipient number idx (from 1): the
\* exception it raises ([err |-> ..]) or the Recipient it appends ([r |-> ..])
EncryptRecipient(kid, idx, enc_scheme, aead_name, oaep_alg, cek, shares) ==
    LET share_index == IF shares # <<>> THEN <<shares[idx][1]>> ELSE <<>>
        material    == IF shares # <<>> THEN IntToBytes(shares[idx][2], Len(cek)) ELSE cek
    IN  IF enc_scheme = "RSA-OAEP" THEN
            IF load_public_error(kid) # "none" THEN [err |-> load_public_error(kid)]
            ELSE IF hash_alg_error(oaep_alg) # "none" THEN [err |-> hash_alg_error(oaep_alg)]
            ELSE [r |-> Recipient(kid, "RSA-OAEP", b64e(wrap_key(kid, material, oaep_alg)),
                                  <<>>, <<>>, share_index)]
        ELSE IF enc_scheme = "X25519-KEM" THEN
            IF load_public_error(kid) # "none" THEN [err |-> load_public_error(kid)]
            ELSE LET wrap == wrap_cek_for_recipient(kid, material, aead_name,
                                                    <<"epk", idx>>, <<"wrap-nonce", idx>>)
                 IN  [r |-> Recipient(kid, "X25519-KEM", b64e(wrap.ct),
                                      <<b64e(wrap.epk_pem)>>, <<b64e(wrap.nonce)>>, share_index)]
        ELSE [err |-> "InvalidHeader: Unsupported key wrap scheme"]

\* the whole loop of lines 67-99 from recipient idx on, acc the list so far
RECURSIVE EncryptRecipients(_, _, _, _, _, _, _, _)
EncryptRecipients(kids, idx, enc_scheme, aead_name, oaep_alg, cek, shares, acc) ==
    IF idx > Len(kids) THEN [recipients |-> acc]
    ELSE LET one == EncryptRecipient(kids[idx], idx, enc_scheme, aead_name, oaep_alg, cek, shares)
         IN  IF "err" \in DOMAIN one THEN one
             ELSE EncryptRecipients(kids, idx + 1, enc_scheme, aead_name, oaep_alg, cek,
                                    shares, Append(acc, one.r))

\* lines 101-112: the FileHeader encrypt_file builds
EncryptHeader(aead_name, enc_scheme, base_nonce, recipients, created_at, chunk, total_size, threshold_k, aad) ==
    [version |-> HEADER_VERSION, aead |-> aead_name, enc |-> enc_scheme,
     nonce |-> b64e(base_nonce), recipients |-> recipients, created_at |-> created_at,
     chunked |-> TRUE, chunk_size |-> <<chunk>>, total_size |-> <<total_size>>,
     threshold |-> threshold_k,
     aad_tag |-> IF TruthyStr(aad) THEN <<b64e(sha256(aad[1]))>> ELSE <<>>,
     kdf |-> <<>>, salt |-> <<>>]

\* lines 115-117: header.aad_bytes(), then the user's AAD appended if any
AadMaterial(header, aad) ==
    [hdr |-> aad_bytes(header), user |-> IF TruthyStr(aad) THEN aad ELSE <<>>]

\* lines 123 / 129: aad_material + struct.pack(">I", index)
Assoc(aad_material, index) ==
    [hdr |-> aad_material.hdr, user |-> aad_material.user, index |-> U32ToBytes(U32(index))]

\* lines 122-124 / 128-130: the sealed chunk number index
EncryptChunk(aead_name, cek, base_nonce, aad_material, index, chunk_data) ==
    AeadEncrypt(aead_name, cek, derive_chunk_nonce(base_nonce, U32(index)), chunk_data,
                Assoc(aad_material, index))

(***************************************************************************)
(* services/decryptor.py: HybridDecryptor.decrypt_file, its pure parts.    *)
(* keys is the set of kids whose private key the key manager can load.     *)
(***************************************************************************)
\* header.get("nonce") or header.get("content_nonce_b64")
HeaderNonceText(header) ==
    IF TruthyText(DictGet(header, "nonce")) THEN DictGet(header, "nonce")
    ELSE DictGet(header, "content_nonce_b64")

\* recip["ek"] if "ek" in recip else recip["ek_b64"], Base64-decoded; None for
\* the KeyError or the decoding error
RecipientWrapped(recip) ==
    IF "ek" \in DOMAIN recip THEN b64d(recip.ek)
    ELSE IF "ek_b64" \in DOMAIN recip THEN b64d(recip.ek_b64)
    ELSE <<>>

\* recip["nonce"] if "nonce" in recip else recip["nonce_b64"], decoded
RecipientNonce(recip) ==
    IF "nonce" \in DOMAIN recip THEN b64d(recip.nonce)
    ELSE IF "nonce_b64" \in DOMAIN recip THEN b64d(recip.nonce_b64)
    ELSE <<>>

\* the body of the try block for one recipient (lines 42-44, 52-59, 75-89):
\* Some unwrapped bytes, or None when anything in it raised
DecryptRecipient(recip, enc, aead_name, keys) ==
    IF recip.kid \notin keys THEN <<>>
    ELSE IF enc = "RSA-OAEP" THEN
        IF RecipientWrapped(recip) = <<>> THEN <<>>
        ELSE unwrap_key(recip.kid, RecipientWrapped(recip)[1], CONFIG_crypto_rsa_oaep_hash)
    ELSE IF enc = "X25519-KEM" THEN
        IF "epk_pem_b64" \notin DOMAIN recip THEN <<>>
        ELSE IF \/ b64d(recip.epk_pem_b64) = <<>>
                \/ RecipientWrapped(recip) = <<>>
                \/ RecipientNonce(recip) = <<>> THEN <<>>
        ELSE unwrap_cek(recip.kid, [epk_pem |-> b64d(recip.epk_pem_b64)[1],
                                    ct      |-> RecipientWrapped(recip)[1],
                                    nonce   |-> RecipientNonce(recip)[1],
                                    aead    |-> aead_name])
    ELSE <<>>

\* break / continue (lines 45-47, 60-62, 92-95): whether the loop goes on to
\* recipient idx + 1 of n
LoopGoesOn_nobreak(idx, n, stop) == idx < n

LoopGoesOn(idx, n, stop) == idx < n /\ ~stop

(***************************************************************************)
(* services/stream.py and models.py: StreamEncryptor and StreamDecryptor,  *)
(* their pure parts.                                                       *)
(***************************************************************************)
\* fi.read(n): up to n bytes, everything left when n is negative
FileRead(stream, pos, n) ==
    IF n < 0 THEN SubSeq(stream, pos + 1, Len(stream)) ELSE HandleRead(stream, pos, n)

\* models.Recipient as StreamEncryptor builds it (lines 48, 53)
StreamRecipient(kid, enc, aead_name, oaep, cek, idx) ==
    IF enc = "RSA-OAEP"
    THEN [kid |-> kid, ek_b64 |-> b64e(wrap_key(kid, cek, oaep)), scheme |-> "RSA-OAEP"]
    ELSE LET w == wrap_cek_for_recipient(kid, cek, aead_name, <<"epk", idx>>, <<"wrap-nonce", idx>>)
         IN  [kid |-> kid, ek_b64 |-> b64e(w.ct), scheme |-> "X25519-KEM",
              epk_pem_b64 |-> b64e(w.epk_pem), nonce_b64 |-> b64e(w.nonce)]

\* lines 44-53: the exception the recipient loops raise, "none" if none
RECURSIVE StreamRecipientsError(_, _, _, _)
StreamRecipientsError(kids, idx, enc, oaep) ==
    IF idx > Len(kids) THEN "none"
    ELSE IF load_public_error(kids[idx]) # "none" THEN load_public_error(kids[idx])
    ELSE IF enc = "RSA-OAEP" /\ hash_alg_error(oaep) # "none" THEN hash_alg_error(oaep)
    ELSE StreamRecipientsError(kids, idx + 1, enc, oaep)

\* DgdHeader.to_json (models.py): enc_recipient, then the dict dumped
DgdRecipientDict(r) ==
    [kid |-> r.kid, ek |-> r.ek_b64, scheme |-> r.scheme]
    @@ (IF r.scheme = "X25519-KEM"
        THEN [epk_pem_b64 |-> r.epk_pem_b64, nonce |-> r.nonce_b64] ELSE <<>>)

DgdHeaderToJson(aead_name, enc, content_nonce, recipients, chunk_size, total_size) ==
    json_dumps([v |-> 1, aead |-> aead_name, enc |-> enc, nonce |-> b64e(content_nonce),
                recipients |-> [i \in 1..Len(recipients) |-> DgdRecipientDict(recipients[i])],
                chunk |-> TRUE, threshold_k |-> [kind |-> "null"],
                chunk_size |-> chunk_size, total_size |-> total_size])

\* str(idx).encode(), the associated data of chunk idx
StrIdx(idx) == [kind |-> "str", of |-> idx]

\* lines 88-96: the frame of chunk idx: pack(">II", len(ct), idx), then ct
StreamFrame(aead_name, cek, content_nonce, idx, chunk) ==
    LET ct == AeadEncrypt(aead_name, cek, StreamChunkNonce(content_nonce, U32(idx)), chunk,
                          StrIdx(idx))
    IN  [head |-> ChunkStructPack(AeadLen(ct), idx), payload |-> ct]

\* r.get("ek") or r.get("ek_b64"), and the like: the first of the two keys
\* whose value is truthy, None if neither
GetEither(r, k1, k2) ==
    IF TruthyText(DictGet(r, k1)) THEN DictGet(r, k1)
    ELSE IF TruthyText(DictGet(r, k2)) THEN DictGet(r, k2)
    ELSE <<>>

\* b64d(x) where x may be None: None for the TypeError or the decoding error
B64dOpt(o) == IF o = <<>> THEN <<>> ELSE b64d(o[1])

\* the try block of StreamDecryptor for one recipient (lines 122-124,
\* 131-138): Some CEK, or None when anything in it raised
StreamDecryptRecipient(r, enc, aead, keys) ==
    IF "kid" \notin DOMAIN r THEN <<>>
    ELSE IF r.kid \notin keys THEN <<>>
    ELSE IF enc = "RSA-OAEP" THEN
        IF B64dOpt(GetEither(r, "ek", "ek_b64")) = <<>> THEN <<>>
        ELSE unwrap_key(r.kid, B64dOpt(GetEither(r, "ek", "ek_b64"))[1], "SHA256")
    ELSE
        IF "epk_pem_b64" \notin DOMAIN r THEN <<>>
        ELSE IF \/ b64d(r.epk_pem_b64) = <<>>
                \/ B64dOpt(GetEither(r, "ek", "ek_b64")) = <<>>
                \/ B64dOpt(GetEither(r, "nonce", "nonce_b64")) = <<>> THEN <<>>
        ELSE unwrap_cek(r.kid, [epk_pem |-> b64d(r.epk_pem_b64)[1],
                                ct      |-> B64dOpt(GetEither(r, "ek", "ek_b64"))[1],
                                nonce   |-> B64dOpt(GetEither(r, "nonce", "nonce_b64"))[1],
                                aead    |-> aead])

\* lines 155-161: opening a frame: the nonce and the associated data come
\* from the index the frame carries
StreamOpenFrame(aead, cek, content_nonce, frame) ==
    LET chunk_idx == ChunkStructUnpack(frame.head)[2]
    IN  AeadDecrypt(aead, cek, StreamChunkNonce(content_nonce, U32(chunk_idx)),
                    frame.payload, StrIdx(chunk_idx))

(***************************************************************************)
(* storage/header.py: Recipient.from_dict and FileHeader.from_json.  The   *)
(* argument is the dict json.loads returned; a result is [h |-> header] or *)
(* [err |-> the InvalidHeader raised].                                     *)
(***************************************************************************)
\* a or b, for optional texts and for optional integers
OrText(a, b) == IF TruthyText(a) THEN a ELSE b

OrInt(a, b) == IF TruthyInt(a) THEN a ELSE b

\* str(v) for the integer version numbers of the model
StrOfInt(v) == IF v = 1 THEN "1" ELSE IF v = 2 THEN "2" ELSE "0"

\* Recipient.from_dict
RecipientFromDict(payload) ==
    LET kid     == DictGet(payload, "kid")
        scheme  == Upper(IF TruthyStr(DictGet(payload, "scheme")) THEN payload.scheme
                         ELSE "RSA-OAEP")
        enc_key == OrText(DictGet(payload, "ek"), DictGet(payload, "ek_b64"))
    IN  IF ~TruthyStr(kid) THEN [err |-> "InvalidHeader: Recipient missing kid"]
        ELSE IF ~TruthyText(enc_key) THEN [err |-> "InvalidHeader: Recipient missing wrapped key"]
        ELSE [r |-> Recipient(kid[1], scheme, enc_key[1],
                              OrText(DictGet(payload, "epk"), DictGet(payload, "epk_pem_b64")),
                              OrText(DictGet(payload, "nonce"), DictGet(payload, "nonce_b64")),
                              DictGet(payload, "share_index"))]

\* [Recipient.from_dict(entry) for entry in recipients_payload]
RECURSIVE RecipientsFromDicts(_, _, _)
RecipientsFromDicts(payload, i, acc) ==
    IF i > Len(payload) THEN [recipients |-> acc]
    ELSE LET one == RecipientFromDict(payload[i])
         IN  IF "err" \in DOMAIN one THEN one
             ELSE RecipientsFromDicts(payload, i + 1, Append(acc, one.r))

\* FileHeader.from_json, lines 163-191: the header built before validate();
\* now is what time.time() returns
FromJsonBuild(data, recipients, now) ==
    LET version    == IF TruthyStr(DictGet(data, "version")) THEN data.version
                      ELSE IF TruthyInt(DictGet(data, "v")) THEN StrOfInt(data.v)
                      ELSE HEADER_VERSION
        chunk_flag == IF "chunked" \in DOMAIN data THEN data.chunked
                      ELSE ("chunk" \in DOMAIN data /\ data.chunk)
        threshold  == IF "threshold" \in DOMAIN data THEN DictGet(data, "threshold")
                      ELSE DictGet(data, "threshold_k")
        aead       == IF TruthyStr(DictGet(data, "aead")) THEN data.aead
                      ELSE IF TruthyStr(DictGet(data, "alg")) THEN data.alg
                      ELSE "AESGCM"
        enc        == IF TruthyStr(DictGet(data, "enc")) THEN data.enc ELSE "RSA-OAEP"
        nonce      == OrText(DictGet(data, "nonce"), DictGet(data, "content_nonce_b64"))
    IN  [version |-> version, aead |-> Upper(aead), enc |-> Upper(enc),
         nonce |-> IF TruthyText(nonce) THEN nonce[1] ELSE b64e(<<>>),
         recipients |-> recipients,
         created_at |-> OrInt(DictGet(data, "created_at"), <<now>>)[1],
         chunked |-> chunk_flag,
         chunk_size |-> IF chunk_flag THEN DictGet(data, "chunk_size") ELSE <<>>,
         total_size |-> DictGet(data, "total_size"),
         threshold |-> IF TruthyInt(threshold) THEN threshold ELSE <<>>,
         aad_tag |-> DictGet(data, "aad_tag"), kdf |-> DictGet(data, "kdf"),
         salt |-> DictGet(data, "salt")]

\* FileHeader.from_json
FileHeaderFromJson(raw, now) ==
    LET data == json_loads(raw)
        rs   == RecipientsFromDicts(IF "recipients" \in DOMAIN data THEN data.recipients
                                    ELSE <<>>, 1, <<>>)
    IN  IF "err" \in DOMAIN rs THEN rs
        ELSE LET header == FromJsonBuild(data, rs.recipients, now)
             IN  IF FileHeaderValidate(header) # "none"
                 THEN [err |-> FileHeaderValidate(header)]
                 ELSE [h |-> header]

\* The byte values the nonce inputs are drawn from.
NonceByteValues == {0, 1, 255}

NoncePrefixes == {<<0, 0, 0, 0, 0, 0, 0, 0>>, <<9, 8, 7, 6, 5, 4, 3, 2>>}

NonceCounters ==
    {<<a, b, c, d>> : a \in {0, 255}, b \in {0}, c \in NonceByteValues, d \in NonceByteValues}

ShamirIdle ==
    /\ shSecret = <<>>
    /\ shN = 0
    /\ shK = 0
    /\ shShares = <<>>
    /\ shPick = <<>>
    /\ shOut = <<>>
    /\ shPc = "off"

ChunkIdle ==
    /\ ckFrames = <<>>
    /\ ckSink = <<>>
    /\ ckCut = 0
    /\ ckPos = 0
    /\ ckYield = <<>>
    /\ ckErr = ""
    /\ ckPc = "off"

EnvIdle ==
    /\ plain = <<>>
    /\ encArgs = <<>>
    /\ encLoc = <<>>
    /\ encPc = "off"
    /\ encErr = ""
    /\ envFile = <<>>
    /\ keysAvail = {}
    /\ decLoc = <<>>
    /\ decPc = "off"
    /\ decErr = ""
    /\ decOut = <<>>

NonceIdle ==
    /\ nBase = <<>>
    /\ nIndex = <<0, 0>>
    /\ nOut = <<>>
    /\ nStream = <<>>
    /\ nPc = "off"

HdrIdle ==
    /\ hdrIn = <<>>
    /\ hdrNames = {}
    /\ hdrBy = ""
    /\ hdrRaw = <<>>
    /\ hdrNow = 0
    /\ hdrParsed = <<>>
    /\ hdrRaw2 = <<>>
    /\ hdrFirst = <<>>
    /\ hdrPc = "off"

KsIdle ==
    /\ ksPub = <<>>
    /\ ksPriv = <<>>
    /\ ksIndex = <<>>
    /\ ksOp = <<>>
    /\ fkFiles = <<>>

SgIdle ==
    /\ sgData = <<>>
    /\ sgSig = <<>>
    /\ sgMeta = <<>>
    /\ sgSigned = <<>>
    /\ sgOp = <<>>

IpcIdle ==
    /\ ipcOffline = FALSE
    /\ ipcWaits = FALSE
    /\ ipcShutdown = FALSE
    /\ ipcServe = "off"
    /\ ipcConn = <<>>
    /\ ipcRan = {}

PvIdle == pvArgs = <<>> /\ pvOut = <<>>

LsIdle ==
    /\ lsLoop = "off"
    /\ lsMaxQueue = 0
    /\ lsBacklog = <<>>
    /\ lsPending = <<>>
    /\ lsCalls = <<>>
    /\ lsSubs = <<>>
    /\ lsCount = 0

RestIdle == SgIdle /\ IpcIdle /\ PvIdle /\ LsIdle

MoreIdle == HdrIdle /\ KsIdle /\ RestIdle

\* every part but the named one is idle
OnlyNonce == ShamirIdle /\ ChunkIdle /\ EnvIdle /\ MoreIdle

OnlyShamir == NonceIdle /\ ChunkIdle /\ EnvIdle /\ MoreIdle

OnlyChunk == NonceIdle /\ ShamirIdle /\ EnvIdle /\ MoreIdle

OnlyEnv == NonceIdle /\ ShamirIdle /\ ChunkIdle /\ MoreIdle

\* the header part runs the decryptor on the files it writes
OnlyHdr == NonceIdle /\ ShamirIdle /\ ChunkIdle /\ KsIdle /\ RestIdle

OnlyKs == NonceIdle /\ ShamirIdle /\ ChunkIdle /\ EnvIdle /\ HdrIdle /\ RestIdle

OnlySg == NonceIdle /\ ShamirIdle /\ ChunkIdle /\ EnvIdle /\ HdrIdle /\ IpcIdle /\ PvIdle /\ LsIdle

OnlyIpc == NonceIdle /\ ShamirIdle /\ ChunkIdle /\ EnvIdle /\ HdrIdle /\ KsIdle /\ SgIdle /\ PvIdle /\ LsIdle

OnlyPv == NonceIdle /\ ShamirIdle /\ ChunkIdle /\ EnvIdle /\ HdrIdle /\ KsIdle /\ SgIdle /\ IpcIdle /\ LsIdle

OnlyLs == NonceIdle /\ ShamirIdle /\ ChunkIdle /\ EnvIdle /\ HdrIdle /\ KsIdle /\ SgIdle /\ IpcIdle /\ PvIdle

NonceInit ==
    /\ nBase \in {p \o c : p \in NoncePrefixes, c \in NonceCounters}
    /\ nIndex \in {U32FromBytes(c) : c \in NonceCounters}
    /\ nOut = <<>>
    /\ nStream = <<>>
    /\ nPc = "start"
    /\ OnlyNonce

\* HybridEncryptor derives the nonce of a chunk with derive_chunk_nonce.
NonceDerive ==
    /\ nPc = "start"
    /\ nOut' = derive_chunk_nonce(nBase, nIndex)
    /\ nPc' = "derived"
    /\ UNCHANGED <<nBase, nIndex, nStream, notNonce>>

\* StreamEncryptor / StreamDecryptor compute the nonce of the same chunk.
NonceStream ==
    /\ nPc = "derived"
    /\ nStream' = StreamChunkNonce(nBase, nIndex)
    /\ nPc' = "done"
    /\ UNCHANGED <<nBase, nIndex, nOut, notNonce>>

NonceNext == NonceDerive \/ NonceStream

SpecNonce == NonceInit /\ [][NonceNext]_vars

(***************************************************************************)
(* Shamir: split_secret, then combine_shares on k of the shares.           *)
(***************************************************************************)
MaxShares == 3

\* secrets at both ends of the byte range and on both sides of P
ShamirSecrets == {<<0>>, <<1>>, <<250>>, <<251>>, <<255>>}

\* values of the random coefficients (os.urandom(32) reduced modulo P)
ShamirCoeffs == {0, 1, 250}

\* the sequences of k pairwise distinct indices into a list of n shares
RECURSIVE DistinctSeqs(_, _)
DistinctSeqs(n, k) ==
    IF k = 0 THEN {<<>>}
    ELSE {Append(q, i) : q \in DistinctSeqs(n, k - 1), i \in 1..n} \cap
         {q \in [1..k -> 1..n] : \A a, b \in 1..k : a # b => q[a] # q[b]}

ShamirInit ==
    /\ shSecret \in ShamirSecrets
    /\ shN \in 1..MaxShares
    /\ shK \in 1..MaxShares
    /\ shShares = <<>>
    /\ shPick = <<>>
    /\ shOut = <<>>
    /\ shPc = "start"
    /\ OnlyShamir

\* split_secret returns the shares
ShamirSplit ==
    /\ shPc = "start"
    /\ split_secret_error(shSecret, shN, shK) = "none"
    /\ \E rnd \in [1..(shK - 1) -> ShamirCoeffs] :
           shShares' = split_secret(shSecret, shN, shK, rnd)
    /\ shPc' = "split"
    /\ UNCHANGED <<shSecret, shN, shK, shPick, shOut, notShamir>>

\* split_secret raises
ShamirSplitRaise ==
    /\ shPc = "start"
    /\ split_secret_error(shSecret, shN, shK) # "none"
    /\ shOut' = <<split_secret_error(shSecret, shN, shK)>>
    /\ shPc' = "error"
    /\ UNCHANGED <<shSecret, shN, shK, shShares, shPick, notShamir>>

\* the caller keeps any k distinct shares, in any order
ShamirPick ==
    /\ shPc = "split"
    /\ \E q \in DistinctSeqs(shN, shK) :
           shPick' = [i \in 1..shK |-> shShares[q[i]]]
    /\ shPc' = "picked"
    /\ UNCHANGED <<shSecret, shN, shK, shShares, shOut, notShamir>>

ShamirCombine ==
    /\ shPc = "picked"
    /\ shOut' = combine_shares(shPick, shK)
    /\ shPc' = "combined"
    /\ UNCHANGED <<shSecret, shN, shK, shShares, shPick, notShamir>>

ShamirNext == ShamirSplit \/ ShamirSplitRaise \/ ShamirPick \/ ShamirCombine

SpecShamir == ShamirInit /\ [][ShamirNext]_vars

(***************************************************************************)
(* Chunk stream: write_chunk calls build a stream, the stream is cut at an *)
(* offset (a truncated file), iter_chunks reads what is left.              *)
(***************************************************************************)
MaxFrames == 2

MaxPayload == 2

ChunkIndexes == {-1, 0, 1}

ChunkFill == {0, 9}

ChunkPayloads == {[i \in 1..l |-> b] : l \in 0..MaxPayload, b \in ChunkFill}

\* the stream iter_chunks reads: the sink cut at ckCut
ckStream == SubSeq(ckSink, 1, ckCut)

ChunkInit ==
    /\ ckFrames = <<>>
    /\ ckSink = <<>>
    /\ ckCut = 0
    /\ ckPos = 0
    /\ ckYield = <<>>
    /\ ckErr = ""
    /\ ckPc = "writing"
    /\ OnlyChunk

ChunkWrite ==
    /\ ckPc = "writing"
    /\ Len(ckFrames) < MaxFrames
    /\ \E index \in ChunkIndexes, payload \in ChunkPayloads :
          /\ write_chunk_error(index) = "none"
          /\ ckSink' = ckSink \o write_chunk(index, payload)
          /\ ckFrames' = Append(ckFrames, <<index, payload>>)
    /\ UNCHANGED <<ckCut, ckPos, ckYield, ckErr, ckPc, notChunk>>

ChunkWriteRaise ==
    /\ ckPc = "writing"
    /\ \E index \in ChunkIndexes :
          /\ write_chunk_error(index) # "none"
          /\ ckErr' = write_chunk_error(index)
    /\ ckPc' = "raised"
    /\ UNCHANGED <<ckFrames, ckSink, ckCut, ckPos, ckYield, notChunk>>

\* the file is closed and later found cut at some offset (or whole)
ChunkCut ==
    /\ ckPc = "writing"
    /\ \E cut \in 0..Len(ckSink) : ckCut' = cut
    /\ ckPc' = "reading"
    /\ UNCHANGED <<ckFrames, ckSink, ckPos, ckYield, ckErr, notChunk>>

\* one turn of the generator iter_chunks
ChunkIterNext ==
    /\ ckPc = "reading"
    /\ LET r == iter_chunks(ckStream, ckPos)
       IN  /\ ckPos' = r.pos
           /\ ckPc' = CASE r.kind = "return" -> "returned"
                        [] r.kind = "raise" -> "raised"
                        [] OTHER -> "reading"
           /\ ckErr' = IF r.kind = "raise" THEN r.err ELSE ckErr
           /\ ckYield' = IF r.kind = "yield"
                         THEN Append(ckYield, <<r.index, r.payload>>) ELSE ckYield
    /\ UNCHANGED <<ckFrames, ckSink, ckCut, notChunk>>

ChunkNext == ChunkWrite \/ ChunkWriteRaise \/ ChunkCut \/ ChunkIterNext

SpecChunks == ChunkInit /\ [][ChunkNext]_vars

(***************************************************************************)
(* The hybrid envelope: HybridEncryptor.encrypt_file writes envFile from   *)
(* plain, then HybridDecryptor.decrypt_file reads it.                      *)
(***************************************************************************)
MaxLen == 3

\* the input file: L bytes 1, 2, .., L
PlainFiles == {[i \in 1..L |-> i] : L \in 0..MaxLen}

RecipientLists == {<<>>, <<"r1">>, <<"r1", "r2">>, <<"r2", "r1">>, <<"rx">>}

EncNames == {"RSA-OAEP", "X25519-KEM", "ROT13"}

AeadNames == {<<>>, <<"CHACHA20">>, <<"ROT13">>}

OaepNames == {<<>>, <<"SHA1">>, <<"SHA512">>, <<"MD5">>}

ThresholdValues == {<<>>, <<1>>, <<2>>, <<3>>}

AadValues == {<<>>, <<"invoice-42">>}

ChunkSizes == {<<>>, <<1>>, <<2>>, <<-1>>}

\* what gen_key_for, gen_nonce_for, os.urandom and time.time may return
CekValues == {<<7>>}

BaseNonces == {<<1, 2, 3, 4, 5, 6, 7, 8, 0, 0, 0, 5>>,
               <<1, 2, 3, 4, 5, 6, 7, 8, 255, 255, 255, 255>>}

ShareCoeffs == {5}

CreatedAt == {1700000000}

\* the output path before the call: it does not exist
NoFile == [exists |-> FALSE, header |-> <<>>, frames |-> <<>>]

HybridInit ==
    /\ OnlyEnv
    /\ plain \in PlainFiles
    /\ encArgs \in [recipient_kids : RecipientLists, enc : EncNames, aead : AeadNames,
                    oaep_hash : OaepNames, threshold_k : ThresholdValues,
                    aad : AadValues, chunk_size : ChunkSizes]
    /\ encLoc = <<>>
    /\ encPc = "call"
    /\ encErr = ""
    /\ envFile = NoFile
    /\ keysAvail \in SUBSET PublicKids
    /\ decLoc = <<>>
    /\ decPc = "idle"
    /\ decErr = ""
    /\ decOut = <<>>

\* encrypt_file raises err
EncRaise(err) ==
    /\ encPc' = "raised"
    /\ encErr' = err
    /\ UNCHANGED <<plain, encArgs, keysAvail, decLoc, decPc, decErr, decOut>>

\* lines 52-117: arguments, keys, recipients and header, up to the with block
EncPrepare ==
    /\ encPc = "call"
    /\ UNCHANGED notEnv
    /\ UNCHANGED envFile
    /\ LET a           == encArgs
           aead_name   == Upper(IF TruthyStr(a.aead) THEN a.aead[1] ELSE CONFIG_crypto_aead)
           enc_scheme  == Upper(a.enc)
           oaep_alg    == Upper(IF TruthyStr(a.oaep_hash) THEN a.oaep_hash[1]
                                ELSE CONFIG_crypto_rsa_oaep_hash)
           chunk       == IF TruthyInt(a.chunk_size) THEN a.chunk_size[1]
                          ELSE CONFIG_crypto_default_chunk_size
           n           == Len(a.recipient_kids)
           split       == TruthyInt(a.threshold_k) /\ a.threshold_k[1] > 1
       IN  IF a.recipient_kids = <<>>
           THEN EncRaise("InvalidHeader: At least one recipient is required") /\ UNCHANGED encLoc
           ELSE IF aead_factory_error(aead_name) # "none"
           THEN EncRaise(aead_factory_error(aead_name)) /\ UNCHANGED encLoc
           ELSE \E cek \in CekValues, base_nonce \in BaseNonces, created_at \in CreatedAt :
                IF split /\ split_secret_error(cek, n, a.threshold_k[1]) # "none"
                THEN EncRaise(split_secret_error(cek, n, a.threshold_k[1])) /\ UNCHANGED encLoc
                ELSE \E rnd \in IF split THEN [1..(a.threshold_k[1] - 1) -> ShareCoeffs]
                                ELSE {<<>>} :
                     LET shares == IF split THEN split_secret(cek, n, a.threshold_k[1], rnd)
                                   ELSE <<>>
                         res    == EncryptRecipients(a.recipient_kids, 1, enc_scheme, aead_name,
                                                     oaep_alg, cek, shares, <<>>)
                     IN  IF "err" \in DOMAIN res
                         THEN EncRaise(res.err) /\ UNCHANGED encLoc
                         ELSE LET header == EncryptHeader(aead_name, enc_scheme, base_nonce,
                                                          res.recipients, created_at, chunk,
                                                          Len(plain), a.threshold_k, a.aad)
                              IN  /\ encLoc' = [aead_name |-> aead_name, cek |-> cek,
                                                base_nonce |-> base_nonce, header |-> header,
                                                aad_material |-> AadMaterial(header, a.aad),
                                                chunk |-> chunk, pos |-> 0, index |-> 0,
                                                wrote |-> FALSE]
                                  /\ encPc' = "open"
                                  /\ UNCHANGED <<plain, encArgs, encErr, keysAvail,
                                                 decLoc, decPc, decErr, decOut>>

\* line 120 and open_encrypted_writer: the output is opened "wb" (created or
\* emptied), then header.to_json() validates and the header and the separator
\* are written; an InvalidHeader leaves the emptied file behind
EncOpen ==
    /\ encPc = "open"
    /\ UNCHANGED notEnv
    /\ UNCHANGED encLoc
    /\ IF FileHeaderValidate(encLoc.header) # "none"
       THEN /\ envFile' = [exists |-> TRUE, header |-> <<>>, frames |-> <<>>]
            /\ EncRaise(FileHeaderValidate(encLoc.header))
       ELSE /\ envFile' = [exists |-> TRUE, header |-> <<FileHeaderToJson(encLoc.header)>>,
                           frames |-> <<>>]
            /\ encPc' = "loop"
            /\ UNCHANGED <<plain, encArgs, encErr, keysAvail, decLoc, decPc, decErr, decOut>>

\* lines 121-126: source.read(chunk) gave bytes: seal and write frame index
EncChunk ==
    /\ encPc = "loop"
    /\ UNCHANGED notEnv
    /\ LET l          == encLoc
           chunk_data == HandleRead(plain, l.pos, l.chunk)
       IN  /\ chunk_data # <<>>
           /\ IF write_chunk_error(l.index) # "none"
              THEN EncRaise(write_chunk_error(l.index)) /\ UNCHANGED <<encLoc, envFile>>
              ELSE /\ envFile' = [envFile EXCEPT !.frames =
                        Append(@, write_chunk_sealed(l.index,
                            EncryptChunk(l.aead_name, l.cek, l.base_nonce, l.aad_material,
                                         l.index, chunk_data)))]
                   /\ encLoc' = [l EXCEPT !.pos = @ + Len(chunk_data), !.index = @ + 1,
                                          !.wrote = TRUE]
                   /\ UNCHANGED <<plain, encArgs, encPc, encErr, keysAvail,
                                  decLoc, decPc, decErr, decOut>>

\* lines 121, 127-132: source.read(chunk) gave b"": the loop ends, the empty
\* frame 0 is written if no frame was, the files are closed
EncEnd ==
    /\ encPc = "loop"
    /\ UNCHANGED notEnv
    /\ LET l == encLoc
       IN  /\ HandleRead(plain, l.pos, l.chunk) = <<>>
           /\ envFile' = IF l.wrote THEN envFile
                         ELSE [envFile EXCEPT !.frames =
                                  Append(@, write_chunk_sealed(0,
                                      EncryptChunk(l.aead_name, l.cek, l.base_nonce,
                                                   l.aad_material, 0, <<>>)))]
           /\ encPc' = "done"
           /\ UNCHANGED <<plain, encArgs, encLoc, encErr, keysAvail,
                          decLoc, decPc, decErr, decOut>>

\* the AAD the caller of decrypt_file holds (decrypt_file takes none)
CallerAads == {<<>>, <<"invoice-42">>, <<"invoice-43">>}

\* decrypt_file raises err
DecRaise(err) ==
    /\ decPc' = "raised"
    /\ decErr' = err
    /\ UNCHANGED <<plain, encArgs, encLoc, encPc, encErr, envFile, keysAvail, decOut>>

\* lines 23-36, 63-64: read the file, split header and body, read the fields
DecStart ==
    /\ decPc = "idle"
    /\ encPc \in {"done", "raised"}
    /\ UNCHANGED notEnv
    /\ \E caller_aad \in CallerAads :
       IF ~envFile.exists THEN DecRaise("FileNotFoundError") /\ UNCHANGED decLoc
       ELSE IF envFile.header = <<>>
       THEN DecRaise("InvalidDgdFile: Missing header separator") /\ UNCHANGED decLoc
       ELSE LET header    == json_loads(envFile.header[1])
                enc       == IF "enc" \in DOMAIN header THEN header.enc ELSE "RSA-OAEP"
                aead_name == IF "aead" \in DOMAIN header THEN header.aead ELSE CONFIG_crypto_aead
                thresh    == DictGet(header, "threshold_k")
                recips    == IF "recipients" \in DOMAIN header THEN header.recipients ELSE <<>>
                single    == ~TruthyInt(thresh) \/ thresh[1] <= 1
            IN  IF HeaderNonceText(header) = <<>> THEN DecRaise("TypeError") /\ UNCHANGED decLoc
                ELSE IF b64d(HeaderNonceText(header)[1]) = <<>>
                THEN DecRaise("binascii.Error") /\ UNCHANGED decLoc
                ELSE IF single /\ enc \notin {"RSA-OAEP", "X25519-KEM"}
                THEN DecRaise("InvalidDgdFile: Unsupported enc scheme") /\ UNCHANGED decLoc
                ELSE /\ decLoc' = [header |-> header,
                                   body |-> [kind |-> "frames", frames |-> envFile.frames],
                                   enc |-> enc, aead_name |-> aead_name,
                                   content_nonce |-> b64d(HeaderNonceText(header)[1])[1],
                                   thresh |-> thresh, recips |-> recips, idx |-> 1,
                                   cek |-> <<>>, shares |-> <<>>, tried |-> <<>>,
                                   caller_aad |-> caller_aad]
                     /\ decPc' = IF recips = <<>> THEN "finish" ELSE "try"
                     /\ UNCHANGED <<plain, encArgs, encLoc, encPc, encErr, envFile,
                                    keysAvail, decErr, decOut>>

\* one turn of the recipient loop: lines 39-47 / 49-62 without a threshold,
\* lines 72-95 with one
DecTry ==
    /\ decPc = "try"
    /\ UNCHANGED notEnv
    /\ LET l      == decLoc
           recip  == l.recips[l.idx]
           n      == Len(l.recips)
           single == ~TruthyInt(l.thresh) \/ l.thresh[1] <= 1
       IN  IF "kid" \notin DOMAIN recip THEN DecRaise("KeyError: kid") /\ UNCHANGED decLoc
           ELSE LET got    == DecryptRecipient(recip, l.enc, l.aead_name, keysAvail)
                    shares == IF ~single /\ got # <<>>
                              THEN Append(l.shares, <<l.idx, IntFromBytes(got[1])>>)
                              ELSE l.shares
                    stop   == IF single THEN got # <<>> ELSE Len(shares) >= l.thresh[1]
                IN  /\ decLoc' = [l EXCEPT !.cek = IF single THEN got ELSE @,
                                           !.shares = shares,
                                           !.tried = Append(@, l.idx),
                                           !.idx = @ + 1]
                    /\ decPc' = IF LoopGoesOn(l.idx, n, stop) THEN "try" ELSE "finish"
                    /\ UNCHANGED <<plain, encArgs, encLoc, encPc, encErr, envFile,
                                   keysAvail, decErr, decOut>>

\* lines 96-105: combine the shares if any, then open the body with the CEK
\* and write the plaintext
DecFinish ==
    /\ decPc = "finish"
    /\ UNCHANGED notEnv
    /\ LET l      == decLoc
           single == ~TruthyInt(l.thresh) \/ l.thresh[1] <= 1
           cek    == IF single THEN l.cek
                     ELSE IF Len(l.shares) < l.thresh[1] THEN <<>>
                     ELSE <<combine_shares(l.shares, l.thresh[1])>>
       IN  IF ~single /\ Len(l.shares) < l.thresh[1]
           THEN DecRaise("InvalidDgdFile: Not enough shares to reconstruct CEK")
                /\ UNCHANGED decLoc
           ELSE IF cek = <<>>
           THEN DecRaise("InvalidDgdFile: No matching recipient key could unwrap CEK")
                /\ UNCHANGED decLoc
           ELSE IF aead_factory_error(l.aead_name) # "none"
           THEN DecRaise(aead_factory_error(l.aead_name)) /\ UNCHANGED decLoc
           ELSE LET pt == AeadDecrypt(l.aead_name, cek[1], l.content_nonce, l.body, <<>>)
                IN  IF pt = <<>>
                    THEN DecRaise("InvalidTag") /\ decLoc' = [l EXCEPT !.cek = cek]
                    ELSE /\ decOut' = pt
                         /\ decLoc' = [l EXCEPT !.cek = cek]
                         /\ decPc' = "done"
                         /\ UNCHANGED <<plain, encArgs, encLoc, encPc, encErr, envFile,
                                        keysAvail, decErr>>

HybridNext == EncPrepare \/ EncOpen \/ EncChunk \/ EncEnd \/ DecStart \/ DecTry \/ DecFinish

SpecHybrid == HybridInit /\ [][HybridNext]_vars

(***************************************************************************)
(* The streaming envelope: StreamEncryptor.encrypt_file writes envFile     *)
(* from plain, the file's frames may be reordered while it is stored, then *)
(* StreamDecryptor.decrypt_file reads it.                                  *)
(***************************************************************************)
StreamChunkSizes == {0, 1, 2, 1048576, -1}

\* what an interrupted earlier run left at the output path: the header and
\* the first frame of a three-byte input in chunks of one, for recipient r1
StaleNonce == <<8, 7, 6, 5, 4, 3, 2, 1, 0, 0, 0, 0>>

StaleFile ==
    [exists |-> TRUE,
     header |-> <<DgdHeaderToJson("AESGCM", "RSA-OAEP", StaleNonce,
                     <<StreamRecipient("r1", "RSA-OAEP", "AESGCM", "SHA256", <<9>>, 1)>>, 1, 3)>>,
     frames |-> <<StreamFrame("AESGCM", <<9>>, StaleNonce, 0, <<1>>)>>]

StreamInit ==
    /\ OnlyEnv
    /\ plain \in PlainFiles
    /\ encArgs \in [recipient_kids : RecipientLists, enc : EncNames, aead : AeadNames,
                    oaep_hash : OaepNames, chunk_size : StreamChunkSizes, resume : BOOLEAN]
    /\ encLoc = <<>>
    /\ encPc = "call"
    /\ encErr = ""
    /\ envFile \in {NoFile, StaleFile}
    /\ keysAvail \in SUBSET PublicKids
    /\ decLoc = <<>>
    /\ decPc = "idle"
    /\ decErr = ""
    /\ decOut = <<>>

\* lines 36-66: names, key, nonce, recipients, header
SEncPrepare ==
    /\ encPc = "call"
    /\ UNCHANGED notEnv
    /\ UNCHANGED envFile
    /\ LET a         == encArgs
           aead_name == Upper(IF TruthyStr(a.aead) THEN a.aead[1] ELSE CONFIG_crypto_aead)
           oaep      == Upper(IF TruthyStr(a.oaep_hash) THEN a.oaep_hash[1]
                              ELSE CONFIG_crypto_rsa_oaep_hash)
       IN  IF aead_factory_error(aead_name) # "none"
           THEN EncRaise(aead_factory_error(aead_name)) /\ UNCHANGED encLoc
           ELSE IF StreamRecipientsError(a.recipient_kids, 1, a.enc, oaep) # "none"
           THEN EncRaise(StreamRecipientsError(a.recipient_kids, 1, a.enc, oaep))
                /\ UNCHANGED encLoc
           ELSE \E cek \in CekValues, content_nonce \in BaseNonces :
                /\ encLoc' = [aead_name |-> aead_name, cek |-> cek,
                              content_nonce |-> content_nonce,
                              header |-> DgdHeaderToJson(aead_name, a.enc, content_nonce,
                                  [i \in 1..Len(a.recipient_kids) |->
                                      StreamRecipient(a.recipient_kids[i], a.enc, aead_name,
                                                      oaep, cek, i)],
                                  a.chunk_size, Len(plain)),
                              pos |-> 0, idx |-> 0, fresh |-> FALSE]
                /\ encPc' = "open"
                /\ UNCHANGED <<plain, encArgs, encErr, keysAvail, decLoc, decPc, decErr, decOut>>

\* lines 68-83: the output is opened "ab" when resume is set and it exists,
\* else "wb"; the header is written only at offset 0; the input is always
\* read from its start (start_chunk = 0)
SEncOpen ==
    /\ encPc = "open"
    /\ UNCHANGED notEnv
    /\ LET append == encArgs.resume /\ envFile.exists
           opened == IF append THEN envFile ELSE [exists |-> TRUE, header |-> <<>>, frames |-> <<>>]
           atZero == opened.header = <<>> /\ opened.frames = <<>>
       IN  /\ envFile' = IF atZero THEN [opened EXCEPT !.header = <<encLoc.header>>] ELSE opened
           /\ encLoc' = [encLoc EXCEPT !.fresh = atZero]
    /\ encPc' = "loop"
    /\ UNCHANGED <<plain, encArgs, encErr, keysAvail, decLoc, decPc, decErr, decOut>>

\* lines 84-98: a chunk was read: seal it and append its frame
SEncChunk ==
    /\ encPc = "loop"
    /\ UNCHANGED notEnv
    /\ LET l     == encLoc
           chunk == FileRead(plain, l.pos, encArgs.chunk_size)
       IN  /\ chunk # <<>>
           /\ envFile' = [envFile EXCEPT !.frames =
                 Append(@, StreamFrame(l.aead_name, l.cek, l.content_nonce, l.idx, chunk))]
           /\ encLoc' = [l EXCEPT !.pos = @ + Len(chunk), !.idx = @ + 1]
    /\ UNCHANGED <<plain, encArgs, encPc, encErr, keysAvail, decLoc, decPc, decErr, decOut>>

\* lines 85-87, 99: nothing was read: the loop ends and the files are closed
SEncEnd ==
    /\ encPc = "loop"
    /\ UNCHANGED notEnv
    /\ FileRead(plain, encLoc.pos, encArgs.chunk_size) = <<>>
    /\ encPc' = "done"
    /\ UNCHANGED <<plain, encArgs, encLoc, encErr, envFile, keysAvail,
                   decLoc, decPc, decErr, decOut>>

\* the stored envelope has two of its frames exchanged, each kept whole
SPermute ==
    /\ encPc = "done"
    /\ decPc = "idle"
    /\ UNCHANGED notEnv
    /\ \E i, j \in 1..Len(envFile.frames) :
          /\ i < j
          /\ envFile' = [envFile EXCEPT !.frames[i] = envFile.frames[j],
                                        !.frames[j] = envFile.frames[i]]
    /\ UNCHANGED <<plain, encArgs, encLoc, encPc, encErr, keysAvail,
                   decLoc, decPc, decErr, decOut>>

\* lines 107-118: read the file, split header and body, read the fields
SDecStart ==
    /\ decPc = "idle"
    /\ encPc \in {"done", "raised"}
    /\ UNCHANGED notEnv
    /\ IF ~envFile.exists THEN DecRaise("FileNotFoundError") /\ UNCHANGED decLoc
       ELSE IF envFile.header = <<>>
       THEN DecRaise("ValueError: Malformed header") /\ UNCHANGED decLoc
       ELSE LET header == json_loads(envFile.header[1])
                aead   == IF "aead" \in DOMAIN header THEN header.aead ELSE CONFIG_crypto_aead
                enc    == IF "enc" \in DOMAIN header THEN header.enc ELSE "RSA-OAEP"
                nonce  == B64dOpt(GetEither(header, "nonce", "content_nonce_b64"))
                recips == IF "recipients" \in DOMAIN header THEN header.recipients ELSE <<>>
            IN  IF nonce = <<>> THEN DecRaise("TypeError") /\ UNCHANGED decLoc
                ELSE /\ decLoc' = [header |-> header, body |-> envFile.frames, aead |-> aead,
                                   enc |-> enc, content_nonce |-> nonce[1], recips |-> recips,
                                   r |-> 1, cek |-> <<>>, bio |-> 0, idx |-> 0]
                     /\ decPc' = IF recips = <<>> THEN "finish" ELSE "try"
                     /\ UNCHANGED <<plain, encArgs, encLoc, encPc, encErr, envFile,
                                    keysAvail, decErr, decOut>>

\* lines 119-141: one turn of the recipient loop
SDecTry ==
    /\ decPc = "try"
    /\ UNCHANGED notEnv
    /\ LET l   == decLoc
           got == StreamDecryptRecipient(l.recips[l.r], l.enc, l.aead, keysAvail)
       IN  /\ decLoc' = [l EXCEPT !.cek = got, !.r = @ + 1]
           /\ decPc' = IF LoopGoesOn(l.r, Len(l.recips), got # <<>>) THEN "try" ELSE "finish"
    /\ UNCHANGED <<plain, encArgs, encLoc, encPc, encErr, envFile, keysAvail, decErr, decOut>>

\* lines 142-150: no CEK is an error; else the output is opened "wb"
SDecOpen ==
    /\ decPc = "finish"
    /\ UNCHANGED notEnv
    /\ UNCHANGED decLoc
    /\ IF decLoc.cek = <<>> THEN DecRaise("ValueError: No matching key to unwrap CEK")
       ELSE IF aead_factory_error(decLoc.aead) # "none"
       THEN DecRaise(aead_factory_error(decLoc.aead))
       ELSE /\ decOut' = <<<<>>>>
            /\ decPc' = "chunks"
            /\ UNCHANGED <<plain, encArgs, encLoc, encPc, encErr, envFile, keysAvail, decErr>>

\* lines 151-163: a frame header was read: open the frame with the nonce and
\* the associated data of the index it carries, append the plaintext
SDecChunk ==
    /\ decPc = "chunks"
    /\ UNCHANGED notEnv
    /\ LET l == decLoc
       IN  /\ l.bio < Len(l.body)
           /\ LET pt == StreamOpenFrame(l.aead, l.cek[1], l.content_nonce, l.body[l.bio + 1])
              IN  IF pt = <<>>
                  THEN /\ decPc' = "raised"
                       /\ decErr' = "InvalidTag"
                       /\ UNCHANGED <<decLoc, decOut>>
                  ELSE /\ decOut' = <<decOut[1] \o pt[1]>>
                       /\ decLoc' = [l EXCEPT !.bio = @ + 1, !.idx = @ + 1]
                       /\ UNCHANGED <<decPc, decErr>>
    /\ UNCHANGED <<plain, encArgs, encLoc, encPc, encErr, envFile, keysAvail>>

\* lines 152-154: the body is exhausted: the loop ends, the output is closed
SDecEnd ==
    /\ decPc = "chunks"
    /\ UNCHANGED notEnv
    /\ decLoc.bio = Len(decLoc.body)
    /\ decPc' = "done"
    /\ UNCHANGED <<plain, encArgs, encLoc, encPc, encErr, envFile, keysAvail,
                   decLoc, decErr, decOut>>

\* the stored envelope loses one or more of its last frames, cut on a frame
\* boundary; the header is kept
STruncate ==
    /\ encPc = "done"
    /\ decPc = "idle"
    /\ UNCHANGED notEnv
    /\ \E kept \in 0..(Len(envFile.frames) - 1) :
          envFile' = [envFile EXCEPT !.frames = SubSeq(envFile.frames, 1, kept)]
    /\ UNCHANGED <<plain, encArgs, encLoc, encPc, encErr, keysAvail,
                   decLoc, decPc, decErr, decOut>>

StreamNext ==
    \/ SEncPrepare \/ SEncOpen \/ SEncChunk \/ SEncEnd
    \/ SPermute \/ STruncate
    \/ SDecStart \/ SDecTry \/ SDecOpen \/ SDecChunk \/ SDecEnd

SpecStream == StreamInit /\ [][StreamNext]_vars

(***************************************************************************)
(* Envelope headers on their own: a writer holds a FileHeader and writes   *)
(* it with to_json(), or the file comes from a writer that spells some     *)
(* fields with their legacy name (models.DgdHeader.to_json is one) and     *)
(* validates nothing.  FileHeader.from_json parses the file and to_json()  *)
(* writes the parsed header again; HybridDecryptor.decrypt_file is run on  *)
(* the file as written and then on the same header in canonical spelling.  *)
(***************************************************************************)
HdrBaseNonce == <<1, 2, 3, 4, 5, 6, 7, 8, 9, 10, 11, 12>>

\* the header encrypt_file builds for the kids, one chunk of 2 bytes of 3
HdrBase(enc, kids, aead) ==
    EncryptHeader(aead, enc, HdrBaseNonce,
                  EncryptRecipients(kids, 1, enc, aead, CONFIG_crypto_rsa_oaep_hash,
                                    <<7>>, <<>>, <<>>).recipients,
                  1700000000, 2, 3, <<>>, <<>>)

HdrPlain == HdrBase("RSA-OAEP", <<"r1">>, "AESGCM")

\* headers that differ in the fields validate() looks at
HdrCores ==
    {HdrPlain, HdrBase("X25519-KEM", <<"r1">>, "AESGCM"),
     HdrBase("RSA-OAEP", <<"r1", "r2">>, "AESGCM"),
     HdrBase("X25519-KEM", <<"r2", "r1">>, "CHACHA20")}
    \cup {[HdrPlain EXCEPT !.version = v] : v \in {"2", ""}}
    \cup {[HdrPlain EXCEPT !.aead = "ROT13"], [HdrPlain EXCEPT !.enc = "ROT13"]}
    \cup {[HdrPlain EXCEPT !.nonce = b64e(n)] : n \in {<<>>, <<1>>}}
    \cup {[HdrPlain EXCEPT !.recipients = rs] :
            rs \in {<<>>,
                    <<[HdrPlain.recipients[1] EXCEPT !.ephemeral_public = <<b64e(<<"epk", 1>>)>>]>>,
                    <<[HdrPlain.recipients[1] EXCEPT !.scheme = "X25519-KEM"]>>,
                    <<[HdrPlain.recipients[1] EXCEPT !.share_index = <<1>>]>>}}

\* the values of the fields validate() leaves free
HdrOptions ==
    [created_at : {0, 1700000000},
     chunking : {<<TRUE, <<2>>>>, <<TRUE, <<>>>>, <<TRUE, <<0>>>>, <<FALSE, <<>>>>, <<FALSE, <<2>>>>},
     threshold : {<<>>, <<0>>, <<2>>},
     extras : BOOLEAN]

HdrWith(c, o) ==
    [c EXCEPT !.created_at = o.created_at,
              !.chunked = o.chunking[1], !.chunk_size = o.chunking[2],
              !.threshold = o.threshold,
              !.total_size = IF o.extras THEN <<3>> ELSE <<>>,
              !.aad_tag = IF o.extras THEN <<b64e(sha256("invoice-42"))>> ELSE <<>>,
              !.kdf = IF o.extras THEN <<[name |-> "scrypt"]>> ELSE <<>>,
              !.salt = IF o.extras THEN <<b64e(<<9>>)>> ELSE <<>>]

HeaderSet == {HdrWith(c, o) : c \in HdrCores, o \in HdrOptions}

\* the fields that have a legacy name; rnonce is the recipient's nonce
AliasFields == {"aead", "nonce", "threshold", "chunked", "ek", "epk", "rnonce"}

AliasSets == {{}, AliasFields} \cup {{f} : f \in AliasFields}

NowValues == {1700000500}

\* d with the key from renamed to to
RenameKey(d, from, to) ==
    IF from \notin DOMAIN d THEN d
    ELSE [k \in (DOMAIN d \ {from}) \cup {to} |-> IF k = to THEN d[from] ELSE d[k]]

\* a recipient entry with the fields in names under their legacy name
RespellRecipient(d, names) ==
    LET d1 == IF "ek" \in names THEN RenameKey(d, "ek", "ek_b64") ELSE d
        d2 == IF "epk" \in names THEN RenameKey(d1, "epk", "epk_pem_b64") ELSE d1
    IN  IF "rnonce" \in names THEN RenameKey(d2, "nonce", "nonce_b64") ELSE d2

\* a header dict with the fields in names under their legacy name
Respell(d, names) ==
    LET d1 == IF "aead" \in names THEN RenameKey(d, "aead", "alg") ELSE d
        d2 == IF "nonce" \in names THEN RenameKey(d1, "nonce", "content_nonce_b64") ELSE d1
        d3 == IF "threshold" \in names THEN RenameKey(d2, "threshold", "threshold_k") ELSE d2
        d4 == IF "chunked" \in names THEN RenameKey(d3, "chunked", "chunk") ELSE d3
    IN  [d4 EXCEPT !.recipients =
            [i \in 1..Len(d.recipients) |-> RespellRecipient(d.recipients[i], names)]]

HdrFile(raw) == [exists |-> TRUE, header |-> <<raw>>, frames |-> <<>>]

HdrInit ==
    /\ OnlyHdr
    /\ hdrIn \in HeaderSet
    /\ hdrNames \in AliasSets
    /\ hdrBy = ""
    /\ hdrRaw = <<>>
    /\ hdrNow = 0
    /\ hdrParsed = <<>>
    /\ hdrRaw2 = <<>>
    /\ hdrFirst = <<>>
    /\ hdrPc = "start"
    /\ plain = <<>>
    /\ encArgs = <<>>
    /\ encLoc = <<>>
    /\ encPc = "done"
    /\ encErr = ""
    /\ envFile = NoFile
    /\ keysAvail \in {{"r1"}, {"r1", "r2"}}
    /\ decLoc = <<>>
    /\ decPc = "off"
    /\ decErr = ""
    /\ decOut = <<>>

\* header.to_json() and the write of its line (encryptor.py line 119): to_dict
\* validates first
HdrWrite ==
    /\ hdrPc = "start"
    /\ hdrNames = {}
    /\ UNCHANGED notHdr
    /\ hdrBy' = "to_json"
    /\ IF FileHeaderValidate(hdrIn) # "none"
       THEN /\ hdrPc' = "raised"
            /\ UNCHANGED <<hdrRaw, envFile>>
       ELSE /\ hdrPc' = "written"
            /\ hdrRaw' = <<FileHeaderToJson(hdrIn)>>
            /\ envFile' = HdrFile(FileHeaderToJson(hdrIn))
    /\ UNCHANGED <<hdrIn, hdrNames, hdrNow, hdrParsed, hdrRaw2, hdrFirst>>
    /\ UNCHANGED <<plain, encArgs, encLoc, encPc, encErr, keysAvail, decLoc, decPc, decErr, decOut>>

\* a file of another writer: the same fields, some under their legacy name,
\* nothing validated
HdrLegacy ==
    /\ hdrPc = "start"
    /\ UNCHANGED notHdr
    /\ hdrBy' = "legacy"
    /\ hdrPc' = "written"
    /\ hdrRaw' = <<json_dumps(Respell(FileHeaderToDict(hdrIn), hdrNames))>>
    /\ envFile' = HdrFile(json_dumps(Respell(FileHeaderToDict(hdrIn), hdrNames)))
    /\ UNCHANGED <<hdrIn, hdrNames, hdrNow, hdrParsed, hdrRaw2, hdrFirst>>
    /\ UNCHANGED <<plain, encArgs, encLoc, encPc, encErr, keysAvail, decLoc, decPc, decErr, decOut>>

\* FileHeader.from_json(raw)
HdrParse ==
    /\ hdrPc = "written"
    /\ UNCHANGED notHdr
    /\ \E now \in NowValues :
         /\ hdrNow' = now
         /\ hdrParsed' = <<FileHeaderFromJson(hdrRaw[1], now)>>
         /\ hdrPc' = IF "err" \in DOMAIN FileHeaderFromJson(hdrRaw[1], now)
                     THEN "rejected" ELSE "parsed"
         /\ decPc' = IF "err" \in DOMAIN FileHeaderFromJson(hdrRaw[1], now)
                     THEN "idle" ELSE decPc
    /\ UNCHANGED <<hdrIn, hdrNames, hdrBy, hdrRaw, hdrRaw2, hdrFirst>>
    /\ UNCHANGED <<plain, encArgs, encLoc, encPc, encErr, envFile, keysAvail, decLoc, decErr, decOut>>

\* to_json() of the header from_json returned
HdrRewrite ==
    /\ hdrPc = "parsed"
    /\ UNCHANGED notHdr
    /\ hdrRaw2' = <<FileHeaderToJson(hdrParsed[1].h)>>
    /\ hdrPc' = "rewritten"
    /\ decPc' = "idle"
    /\ UNCHANGED <<hdrIn, hdrNames, hdrBy, hdrRaw, hdrNow, hdrParsed, hdrFirst>>
    /\ UNCHANGED <<plain, encArgs, encLoc, encPc, encErr, envFile, keysAvail, decLoc, decErr, decOut>>

\* decrypt_file has ended on the file as written: the same header is stored
\* in canonical spelling and decrypt_file is called again
HdrRespell ==
    /\ hdrPc \in {"rejected", "rewritten"}
    /\ decPc \in {"done", "raised"}
    /\ UNCHANGED notHdr
    /\ hdrFirst' = <<[err |-> decErr, out |-> decOut]>>
    /\ envFile' = HdrFile(json_dumps(FileHeaderToDict(hdrIn)))
    /\ hdrPc' = "again"
    /\ decPc' = "idle"
    /\ decLoc' = <<>>
    /\ decErr' = ""
    /\ decOut' = <<>>
    /\ UNCHANGED <<hdrIn, hdrNames, hdrBy, hdrRaw, hdrNow, hdrParsed, hdrRaw2>>
    /\ UNCHANGED <<plain, encArgs, encLoc, encPc, encErr, keysAvail>>

HdrNext ==
    \/ HdrWrite
    \/ HdrLegacy
    \/ HdrParse
    \/ HdrRewrite
    \/ HdrRespell
    \/ DecStart
    \/ DecTry
    \/ DecFinish

SpecHeader == HdrInit /\ [][HdrNext]_vars

(***************************************************************************)
(* The key stores.  storage/keystore.py: KeyStore keeps keys.json (the     *)
(* index), keys/<kid>_pub.pem and keys/<kid>_priv.enc (the private PEM     *)
(* sealed under a passphrase); services/key_manager.py creates keys in it, *)
(* services/key_lifecycle.py rotates and revokes, policy/policy.py reads   *)
(* the index.  core/keystore.py: FileKeyStore keeps <key_id>.pem files.    *)
(* A key pair is a term; PEM text, the derived key and the sealed blob are *)
(* terms over it.  A file mode is the integer of its permission bits.      *)
(***************************************************************************)
RECURSIVE AndBits(_, _, _)
\* a & b on the low n bits
AndBits(a, b, n) ==
    IF n = 0 THEN 0
    ELSE ((a % 2) * (b % 2)) + 2 * AndBits(a \div 2, b \div 2, n - 1)

\* the mode open() gives a file it creates: 0o666 & ~umask
NewFileMode(umask) == 438 - AndBits(438, umask, 9)

\* 0o600, the mode FileKeyStore sets and asserts
PRIVATE_MODE == 384

\* str.encode("utf-8")
Encode(str) == [kind |-> "utf8", s |-> str]

\* RsaKeyPair.public_pem / Ed25519KeyPair.public_pem
public_pem(kp) == [kind |-> "pem", of |-> "public", key |-> kp]

\* RsaKeyPair.private_pem_pkcs8 / Ed25519KeyPair.private_pem_pkcs8, no passphrase
private_pem_pkcs8(kp) == [kind |-> "pem", of |-> "private", key |-> kp, password |-> <<>>]

\* serialization.load_pem_private_key(pem, password): the key object, or the
\* exception for a password that does not fit the PEM
load_pem_private_key(pem, password) ==
    IF pem.of # "private" THEN [err |-> "ValueError: Could not deserialize key data"]
    ELSE IF pem.password = <<>> /\ password # <<>>
    THEN [err |-> "TypeError: Password was given but private key is not encrypted"]
    ELSE IF pem.password # <<>> /\ password = <<>>
    THEN [err |-> "TypeError: Password was not given but private key is encrypted"]
    ELSE IF pem.password # password THEN [err |-> "ValueError: Bad decrypt"]
    ELSE [key |-> [kind |-> "privkey", key |-> pem.key]]

\* KeyStore.make_kid
make_kid(kind, pem) ==
    [prefix |-> IF kind \in {"ed", "ed25519"} THEN "ed" ELSE kind, h |-> sha256(pem)]

\* Scrypt(salt, length=32, n, r, p).derive(passphrase)
Scrypt(salt, passphrase) == [kind |-> "scrypt", salt |-> salt, pw |-> passphrase]

\* the key pairs generate() returns in the model
KsKeyPairs == {[kind |-> "rsa", n |-> 1], [kind |-> "ed", n |-> 2]}

KsKids == {make_kid(kp.kind, public_pem(kp)) : kp \in KsKeyPairs}

\* the file a write leaves at a path: a new file gets its mode from the umask,
\* an existing one keeps its mode
FileWritten(old, content, umask) ==
    <<[content |-> content, mode |-> IF old = <<>> THEN NewFileMode(umask) ELSE old[1].mode]>>

\* KeyStore.write_keypair, lines 59-65: the public PEM is written first
write_keypair_pub(pub, kid, pem) == [pub EXCEPT ![kid] = <<pem>>]

\* lines 62-65: the exception the two passphrase entries raise, "none" if none
write_keypair_error(pw1, pw2) ==
    IF pw1 # pw2 \/ pw1 = "" THEN "ValueError: Passphrases do not match or empty" ELSE "none"

\* lines 66-85: the payload of the sealed blob
SealedPayload(private_pem, pw1, salt, nonce) ==
    [v |-> 1, alg |-> "AES-256-GCM", salt |-> b64e(salt), nonce |-> b64e(nonce),
     ct |-> b64e(AeadEncrypt("AESGCM", Scrypt(salt, Encode(pw1)), nonce, private_pem, <<>>))]

\* lines 86-88: the sealed blob is written with write_text
write_keypair_priv(priv, kid, private_pem, pw1, salt, nonce, umask) ==
    [priv EXCEPT ![kid] =
        FileWritten(priv[kid], json_dumps(SealedPayload(private_pem, pw1, salt, nonce)), umask)]

\* the list register leaves when it does not drop the old record of kid
register_append(index, kid, label, alg, created_at) ==
    Append(index, [kid |-> kid, alg |-> alg, label |-> label, created_at |-> created_at])

\* KeyStore.register: the "keys" list it saves
register(index, kid, label, alg, created_at) ==
    Append(SelectSeq(index, LAMBDA k : k.kid # kid),
           [kid |-> kid, alg |-> alg, label |-> label, created_at |-> created_at])

\* KeyStore.load_private_key / load_private_key_with_passphrase: the key
\* object returned ([key |-> ..]) or the exception raised ([err |-> ..])
load_private_key(priv, kid, passphrase) ==
    IF priv[kid] = <<>> THEN [err |-> "FileNotFoundError: Private key not found"]
    ELSE LET meta == json_loads(priv[kid][1].content)
             pem  == AeadDecrypt("AESGCM", Scrypt(b64d(meta.salt)[1], passphrase),
                                 b64d(meta.nonce)[1], b64d(meta.ct)[1], <<>>)
         IN  IF pem = <<>> THEN [err |-> "cryptography.exceptions.InvalidTag"]
             ELSE load_pem_private_key(pem[1], <<>>)

\* the operations policy.enforce lets through
ALLOWED_OPS ==
    {"encrypt", "decrypt", "sign", "verify", "sha256", "list-keys",
     "export-key", "import-key", "doctor", "selftest", "benchmark"}

\* the loop of enforce, lines 30-36, from record i on: whether it raises
RECURSIVE KeyExpired(_, _, _, _)
KeyExpired(index, i, actor, now) ==
    IF i > Len(index) THEN FALSE
    ELSE IF index[i].kid = actor
    THEN TruthyInt(DictGet(index[i], "expiry")) /\ index[i].expiry <= now
    ELSE KeyExpired(index, i + 1, actor, now)

\* policy.enforce: the exception it raises, "none" if it returns
enforce_error(index, op, actor, now) ==
    IF op \notin ALLOWED_OPS THEN "PermissionError: Operation not allowed"
    ELSE IF actor # <<>> /\ KeyExpired(index, 1, actor[1], now)
    THEN "PermissionError: Key expired"
    ELSE "none"

\* FileKeyStore.store_private_key, lines 39-43: private_bytes(...)
FkPem(kp, passphrase) ==
    [kind |-> "pem", of |-> "private", key |-> kp, password |-> passphrase]

\* FileKeyStore._assert_permissions: the CryptoError, "none" if none
assert_permissions_error(file) ==
    IF file = <<>> THEN "CryptoError: Key file does not exist"
    ELSE IF file[1].mode # PRIVATE_MODE THEN "CryptoError: Insecure permissions"
    ELSE "none"

\* FileKeyStore.load_private_key
FkLoadPrivate(file, passphrase) ==
    IF assert_permissions_error(file) # "none" THEN [err |-> assert_permissions_error(file)]
    ELSE IF "err" \in DOMAIN load_pem_private_key(file[1].content, passphrase)
    THEN load_pem_private_key(file[1].content, passphrase)
    ELSE IF file[1].content.key.kind # "rsa" THEN [err |-> "CryptoError: Expected RSA private key"]
    ELSE load_pem_private_key(file[1].content, passphrase)

(***************************************************************************)
(* The key stores as a state machine: each action is one call, with its    *)
(* arguments, the passphrase entries, the umask of the process and the     *)
(* clock drawn from small sets.  ksOp records the call just made and the   *)
(* store as it was before it.                                              *)
(***************************************************************************)
MaxRecords == 3

KsLabels == {"alice", "bob"}

KsAlgs == {"RSA", "ED25519"}

KsPassphrases == {"p", "q"}

\* what the user types at the two getpass prompts of write_keypair
KsEntries == {<<"p", "p">>, <<"p", "q">>, <<"", "">>}

\* os.urandom(16) and os.urandom(12)
KsSalt == <<"salt", 16>>

KsNonce == <<"nonce", 12>>

\* umask 0o022 and 0o077
Umasks == {18, 63}

\* 0o600, 0o644
FileModes == {384, 420}

KsNows == {100}

KsExpiries == {0, 100, 150}

FkKeyIds == {"k"}

KsBefore == [index |-> ksIndex, pub |-> ksPub, priv |-> ksPriv, fk |-> fkFiles]

\* the record of a call that leaves the files alone, and of one that writes them
KsCall(op, kid, arg, err, ret) ==
    ksOp' = [op |-> op, kid |-> kid, arg |-> arg, err |-> err, ret |-> ret, before |-> <<KsBefore>>]

KsWrote(op, kid, arg, err, ret) ==
    ksOp' = [op |-> op, kid |-> kid, arg |-> arg, err |-> err, ret |-> ret, before |-> <<>>]

KsStart ==
    /\ ksPub = [k \in KsKids |-> <<>>]
    /\ ksPriv = [k \in KsKids |-> <<>>]
    /\ ksIndex = <<>>
    /\ fkFiles = [id \in FkKeyIds |-> <<>>]
    /\ ksOp = [op |-> "init", kid |-> <<>>, arg |-> <<>>, err |-> "", ret |-> <<>>,
               before |-> <<>>]

KsInit == OnlyKs /\ KsStart

\* create_rsa / create_ed25519 for the generated pair kp: make_kid,
\* write_keypair, register
KsCreate(kp, label, alg, pw1, pw2, umask, now) ==
    LET kid == make_kid(kp.kind, public_pem(kp))
    IN  /\ Len(ksIndex) < MaxRecords
        /\ UNCHANGED <<notKs, fkFiles>>
        /\ ksPub' = write_keypair_pub(ksPub, kid, public_pem(kp))
        /\ IF write_keypair_error(pw1, pw2) # "none"
           THEN /\ KsWrote("create", <<kid>>, <<pw1, pw2>>, write_keypair_error(pw1, pw2), <<>>)
                /\ UNCHANGED <<ksPriv, ksIndex>>
           ELSE /\ ksPriv' = write_keypair_priv(ksPriv, kid, private_pem_pkcs8(kp), pw1,
                                                KsSalt, KsNonce, umask)
                /\ ksIndex' = register(ksIndex, kid, label, alg, now)
                /\ KsWrote("create", <<kid>>, <<pw1, pw2>>, "", <<kid>>)

KsCreateRsa ==
    \E kp \in {k \in KsKeyPairs : k.kind = "rsa"}, label \in KsLabels,
       pw \in KsEntries, umask \in Umasks, now \in KsNows :
        KsCreate(kp, label, "RSA", pw[1], pw[2], umask, now)

KsCreateEd25519 ==
    \E kp \in {k \in KsKeyPairs : k.kind = "ed"}, label \in KsLabels,
       pw \in KsEntries, umask \in Umasks, now \in KsNows :
        KsCreate(kp, label, "ED25519", pw[1], pw[2], umask, now)

\* KeyStore.register(kid, label, alg)
KsRegister ==
    \E kid \in KsKids, label \in KsLabels, alg \in KsAlgs, now \in KsNows :
        /\ Len(ksIndex) < MaxRecords
        /\ UNCHANGED <<notKs, ksPub, ksPriv, fkFiles>>
        /\ ksIndex' = register(ksIndex, kid, label, alg, now)
        /\ KsCall("register", <<kid>>, [label |-> label, alg |-> alg], "", <<>>)

\* KeyStore.load_private_key_with_passphrase(kid, passphrase)
KsLoadPrivateWithPassphrase ==
    \E kid \in KsKids, pw \in KsPassphrases :
        LET got == load_private_key(ksPriv, kid, Encode(pw))
        IN  /\ UNCHANGED <<notKs, ksPub, ksPriv, ksIndex, fkFiles>>
            /\ KsCall("load", <<kid>>, Encode(pw), IF "err" \in DOMAIN got THEN got.err ELSE "",
                      IF "err" \in DOMAIN got THEN <<>> ELSE <<got.key>>)

\* KeyStore.load_private_key(kid): the passphrase is what getpass returns
KsLoadPrivate ==
    \E kid \in KsKids, pw \in {"p", ""} :
        LET got == load_private_key(ksPriv, kid, Encode(pw))
        IN  /\ UNCHANGED <<notKs, ksPub, ksPriv, ksIndex, fkFiles>>
            /\ KsCall("load_prompt", <<kid>>, Encode(pw), IF "err" \in DOMAIN got THEN got.err ELSE "",
                      IF "err" \in DOMAIN got THEN <<>> ELSE <<got.key>>)

\* key_lifecycle.revoke_key(name, kind): KeyStore has no _load_db, line 35
\* raises AttributeError before anything is removed
KsRevoke ==
    \E kid \in KsKids :
        /\ UNCHANGED <<notKs, ksPub, ksPriv, ksIndex, fkFiles>>
        /\ KsCall("revoke", <<kid>>, <<>>, "AttributeError: 'KeyStore' object has no attribute '_load_db'", <<>>)

\* key_lifecycle.rotate_key(name, kind, passphrase): KeyStore has no
\* store_private, lines 27 and 30 raise AttributeError after the key is
\* generated; any other kind returns without doing anything
KsRotate ==
    \E kid \in KsKids, kind \in {"rsa", "x25519"} :
        /\ UNCHANGED <<notKs, ksPub, ksPriv, ksIndex, fkFiles>>
        /\ KsCall("rotate", <<kid>>, kind,
                  IF kind \in {"rsa", "ed25519"}
                  THEN "AttributeError: 'KeyStore' object has no attribute 'store_private'"
                  ELSE "", <<>>)

\* KeyLifecycle.set_expiry(kid, expire_at), as key-expire calls it: the record
\* of kid gets the expiry
KsSetExpiry ==
    \E kid \in KsKids, expire_at \in KsExpiries :
        /\ \E i \in 1..Len(ksIndex) : ksIndex[i].kid = kid
        /\ UNCHANGED <<notKs, ksPub, ksPriv, fkFiles>>
        /\ ksIndex' = [i \in 1..Len(ksIndex) |->
                         IF ksIndex[i].kid = kid
                         THEN [kid |-> kid, alg |-> ksIndex[i].alg, label |-> ksIndex[i].label,
                               created_at |-> ksIndex[i].created_at, expiry |-> expire_at]
                         ELSE ksIndex[i]]
        /\ KsWrote("set_expiry", <<kid>>, expire_at, "", <<>>)

\* policy.enforce(OperationContext(op, actor, {}))
KsEnforce ==
    \E op \in {"sign", "shred"}, actor \in {<<>>} \cup {<<k>> : k \in KsKids}, now \in KsNows :
        /\ UNCHANGED <<notKs, ksPub, ksPriv, ksIndex, fkFiles>>
        /\ KsCall("enforce", actor, [op |-> op, now |-> now],
                  IF enforce_error(ksIndex, op, actor, now) = "none" THEN ""
                  ELSE enforce_error(ksIndex, op, actor, now), <<>>)

\* the owner changes the mode of a sealed blob
KsChmod ==
    \E kid \in KsKids, mode \in FileModes :
        /\ ksPriv[kid] # <<>>
        /\ UNCHANGED <<notKs, ksPub, ksIndex, fkFiles>>
        /\ ksPriv' = [ksPriv EXCEPT ![kid] = <<[content |-> ksPriv[kid][1].content, mode |-> mode]>>]
        /\ KsWrote("chmod", <<kid>>, mode, "", <<>>)

\* FileKeyStore.store_private_key(key_id, private_key, passphrase): write the
\* PEM, then chmod 0o600
FkStore ==
    \E id \in FkKeyIds, kp \in {k \in KsKeyPairs : k.kind = "rsa"}, passphrase \in {<<>>, <<Encode("p")>>}, umask \in Umasks :
        /\ UNCHANGED <<notKs, ksPub, ksPriv, ksIndex>>
        /\ fkFiles' = [fkFiles EXCEPT ![id] =
              <<[content |-> FileWritten(fkFiles[id], FkPem(kp, passphrase), umask)[1].content,
                 mode |-> PRIVATE_MODE]>>]
        /\ KsWrote("fk_store", <<id>>, passphrase, "", <<>>)

\* FileKeyStore.load_private_key(key_id, passphrase)
FkLoad ==
    \E id \in FkKeyIds, passphrase \in {<<>>, <<Encode("p")>>} :
        LET got == FkLoadPrivate(fkFiles[id], passphrase)
        IN  /\ UNCHANGED <<notKs, ksPub, ksPriv, ksIndex, fkFiles>>
            /\ KsCall("fk_load", <<id>>, passphrase, IF "err" \in DOMAIN got THEN got.err ELSE "",
                      IF "err" \in DOMAIN got THEN <<>> ELSE <<got.key>>)

\* the owner changes the mode of a FileKeyStore file
FkChmod ==
    \E id \in FkKeyIds, mode \in FileModes :
        /\ fkFiles[id] # <<>>
        /\ UNCHANGED <<notKs, ksPub, ksPriv, ksIndex>>
        /\ fkFiles' = [fkFiles EXCEPT ![id] = <<[content |-> fkFiles[id][1].content, mode |-> mode]>>]
        /\ KsWrote("fk_chmod", <<id>>, mode, "", <<>>)

KsNext ==
    \/ KsCreateRsa
    \/ KsCreateEd25519
    \/ KsRegister
    \/ KsLoadPrivateWithPassphrase
    \/ KsLoadPrivate
    \/ KsRevoke
    \/ KsRotate
    \/ KsChmod

SpecKeyStore == KsInit /\ [][KsNext]_vars

\* FileKeyStore on its own
FkNext ==
    \/ FkStore
    \/ FkLoad
    \/ FkChmod

SpecFileKeyStore == KsInit /\ [][FkNext]_vars

\* the index with expiries and the policy gate that reads it
PolicyNext ==
    \/ KsRegister
    \/ KsSetExpiry
    \/ KsEnforce

SpecPolicy == KsInit /\ [][PolicyNext]_vars

(***************************************************************************)
(* services/signer_service.py and crypto/signer.py: detached Ed25519       *)
(* signatures.  A value is tagged with what it is: the bytes of a PEM file *)
(* are [kind |-> "pem", ..], a key object is [kind |-> "privkey", ..]; a   *)
(* signature is a term naming the key and the data it was made over.       *)
(***************************************************************************)
\* Ed25519PrivateKey.sign(data)
ed_sign(priv, data) == [kind |-> "edsig", key |-> priv.key, data |-> data]

\* base64.b64encode(sig).decode()
base64_b64encode(data) == [kind |-> "b64std", data |-> data]

\* base64.b64decode(text.encode()): Some bytes, or None for binascii.Error
base64_b64decode(text) == IF text.kind = "b64std" THEN <<text.data>> ELSE <<>>

\* Ed25519KeyPair.sign_b64, lines 30-32
sign_b64(priv, data) == base64_b64encode(ed_sign(priv, data))

\* KeyStore.load_public_key, storage/keystore.py 100-104: the bytes of the
\* PEM file, not a key object
load_public_key(pub, kid) ==
    IF pub[kid] = <<>> THEN [err |-> "FileNotFoundError: Public key not found"]
    ELSE [ret |-> pub[kid][1]]

\* what self._pub.verify(sig, data) raises, "none" if it returns: only a key
\* object has a verify method
pub_verify_error(pub, sig, data) ==
    IF pub.kind # "pubkey" THEN "AttributeError: 'bytes' object has no attribute 'verify'"
    ELSE IF sig.kind = "edsig" /\ sig.key = pub.key /\ sig.data = data THEN "none"
    ELSE "cryptography.exceptions.InvalidSignature"

\* Ed25519KeyPair.verify_b64, lines 34-40: b64decode is outside the try
verify_b64(pub, data, sig_b64) ==
    IF base64_b64decode(sig_b64) = <<>> THEN [err |-> "binascii.Error: Incorrect padding"]
    ELSE [ret |-> pub_verify_error(pub, base64_b64decode(sig_b64)[1], data) = "none"]

\* the sidecar sign writes, line 20
SidecarJson(ed_kid) == json_dumps([v |-> 1, alg |-> "Ed25519", kid |-> ed_kid])

\* the input files, the kids of Ed25519 keys, and what a changed signature
\* file may hold: the signature of other data, or text that is not Base64
SgFiles == {<<>>, <<1>>, <<1, 2>>}

SgKids == {make_kid(kp.kind, public_pem(kp)) : kp \in {k \in KsKeyPairs : k.kind = "ed"}}

SgForged == {base64_b64encode([kind |-> "edsig", key |-> kp, data |-> d]) :
                kp \in {k \in KsKeyPairs : k.kind = "ed"}, d \in SgFiles}
            \cup {[kind |-> "text", s |-> "abc"]}

SgCall(op, err, ret) == sgOp' = [op |-> op, err |-> err, ret |-> ret]

SignerInit ==
    /\ OnlySg
    /\ KsStart
    /\ sgData \in SgFiles
    /\ sgSig = <<>>
    /\ sgMeta = <<>>
    /\ sgSigned = <<>>
    /\ sgOp = [op |-> "init", err |-> "", ret |-> <<>>]

\* SignerService.sign(input_path, sig_path, ed_kid), pw typed at the prompt
SgSign ==
    \E ed_kid \in SgKids, pw \in KsPassphrases :
        LET got == load_private_key(ksPriv, ed_kid, Encode(pw))
        IN  /\ UNCHANGED <<notSg, ksVars, sgData>>
            /\ IF "err" \in DOMAIN got
               THEN /\ SgCall("sign", got.err, <<>>)
                    /\ UNCHANGED <<sgSig, sgMeta, sgSigned>>
               ELSE /\ sgSig' = <<sign_b64(got.key, sgData)>>
                    /\ sgMeta' = <<SidecarJson(ed_kid)>>
                    /\ sgSigned' = <<[kid |-> ed_kid, data |-> sgData,
                                      sig |-> sign_b64(got.key, sgData)]>>
                    /\ SgCall("sign", "", <<>>)

\* the file at input_path gets other bytes
SgChangeFile ==
    /\ sgSigned # <<>>
    /\ \E d \in SgFiles \ {sgData} : sgData' = d
    /\ SgCall("change", "", <<>>)
    /\ UNCHANGED <<notSg, ksVars, sgSig, sgMeta, sgSigned>>

\* the file at sig_path gets other text
SgChangeSig ==
    /\ sgSigned # <<>>
    /\ \E t \in SgForged \ {sgSig[1]} : sgSig' = <<t>>
    /\ SgCall("change", "", <<>>)
    /\ UNCHANGED <<notSg, ksVars, sgData, sgMeta, sgSigned>>

\* SignerService.verify(input_path, sig_path): strip() leaves Base64 text as
\* it is; the sidecar is read, its kid looked up
SgVerify ==
    /\ UNCHANGED <<notSg, ksVars, sgData, sgSig, sgMeta, sgSigned>>
    /\ IF sgSig = <<>> \/ sgMeta = <<>> THEN SgCall("verify", "FileNotFoundError", <<>>)
       ELSE LET kid == json_loads(sgMeta[1]).kid
                pub == load_public_key(ksPub, kid)
            IN  IF "err" \in DOMAIN pub THEN SgCall("verify", pub.err, <<>>)
                ELSE LET res == verify_b64(pub.ret, sgData, sgSig[1])
                     IN  IF "err" \in DOMAIN res THEN SgCall("verify", res.err, <<>>)
                         ELSE SgCall("verify", "", <<res.ret>>)

SignerNext ==
    \/ KsCreateEd25519
    \/ SgSign
    \/ SgChangeFile
    \/ SgChangeSig
    \/ SgVerify

SpecSigner == SignerInit /\ [][SignerNext]_vars

(***************************************************************************)
(* dg_core/ipc/server.py and ipc/transport.py: the JSON-RPC server.  A     *)
(* request is the line a client wrote: [json, method, id, params], json    *)
(* FALSE for a line that is not a JSON-RPC request, params "ok" or "bad"   *)
(* for parameters the method's model accepts or rejects.  A response is    *)
(* [id, error, result] with error None or <<code>>.                        *)
(***************************************************************************)
IpcHandlers == {"core.health", "core.version", "core.scan", "core.redact", "core.shutdown"}

IpcError(id, code) == [id |-> id, error |-> <<code>>, result |-> ""]

IpcResult(id, result) == [id |-> id, error |-> <<>>, result |-> result]

\* _handle_health, _handle_version, _handle_scan, _handle_redact and
\* _handle_shutdown: the response, the engines run, whether stop() was called
IpcHandle(request) ==
    IF request.method = "core.health"
    THEN [resp |-> IpcResult(request.id, "ok"), ran |-> {}, stop |-> FALSE]
    ELSE IF request.method = "core.version"
    THEN [resp |-> IpcResult(request.id, "version"), ran |-> {}, stop |-> FALSE]
    ELSE IF request.method = "core.shutdown"
    THEN [resp |-> IpcResult(request.id, "shutting_down"), ran |-> {}, stop |-> TRUE]
    ELSE IF request.params = "bad"
    THEN [resp |-> IpcError(request.id, -32602), ran |-> {}, stop |-> FALSE]
    ELSE IF request.method = "core.scan"
    THEN [resp |-> IpcResult(request.id, "detections"), ran |-> {"core.scan"}, stop |-> FALSE]
    ELSE [resp |-> IpcResult(request.id, "redacted"), ran |-> {"core.redact"}, stop |-> FALSE]

\* IPCServer._dispatch: resp is None or the response sent
IpcDispatch(raw) ==
    IF ~raw.json THEN [resp |-> <<IpcError(<<>>, -32700)>>, ran |-> {}, stop |-> FALSE]
    ELSE IF raw.method \notin IpcHandlers
    THEN [resp |-> <<IpcError(raw.id, -32601)>>, ran |-> {}, stop |-> FALSE]
    ELSE LET h == IpcHandle(raw)
         IN  [resp |-> IF raw.id = <<>> THEN <<>> ELSE <<h.resp>>, ran |-> h.ran, stop |-> h.stop]

IpcConns == {1, 2}

\* the lines sent over all connections together
IpcMaxSent == 2

IpcRequests ==
    {[json |-> TRUE, method |-> m, id |-> <<1>>, params |-> "ok"] :
        m \in {"core.health", "core.scan", "core.redact", "core.shutdown", "core.nope"}}
    \cup {[json |-> TRUE, method |-> "core.shutdown", id |-> <<>>, params |-> "ok"],
          [json |-> TRUE, method |-> "core.scan", id |-> <<1>>, params |-> "bad"],
          [json |-> FALSE, method |-> "", id |-> <<>>, params |-> "ok"]}

IpcNoConn == [pos |-> "none", open |-> FALSE, peer |-> FALSE, inbox |-> <<>>, log |-> <<>>]

IpcSent == LET n(c) == Len(ipcConn[c].inbox) + Len(ipcConn[c].log) IN n(1) + n(2)

\* the state when serve_forever has started the transport and waits
IpcInit ==
    /\ OnlyIpc
    /\ ipcOffline \in BOOLEAN
    /\ ipcWaits \in BOOLEAN
    /\ ipcShutdown = FALSE
    /\ ipcServe = "waiting"
    /\ ipcConn = [c \in IpcConns |-> IpcNoConn]
    /\ ipcRan = {}

\* a client connects: _client_connected starts _handle_connection
IpcConnect(c) ==
    /\ ipcServe = "waiting"
    /\ ipcConn[c].pos = "none"
    /\ ipcConn' = [ipcConn EXCEPT ![c] = [@ EXCEPT !.pos = "top", !.open = TRUE, !.peer = TRUE]]
    /\ UNCHANGED <<notIpc, ipcOffline, ipcWaits, ipcShutdown, ipcServe, ipcRan>>

\* a client writes a line
IpcSend(c) ==
    /\ ipcConn[c].peer
    /\ ipcConn[c].open
    /\ IpcSent < IpcMaxSent
    /\ \E raw \in IpcRequests :
          ipcConn' = [ipcConn EXCEPT ![c].inbox = Append(@, raw)]
    /\ UNCHANGED <<notIpc, ipcOffline, ipcWaits, ipcShutdown, ipcServe, ipcRan>>

\* a client closes its socket
IpcHangUp(c) ==
    /\ ipcConn[c].peer
    /\ ipcConn' = [ipcConn EXCEPT ![c].peer = FALSE]
    /\ UNCHANGED <<notIpc, ipcOffline, ipcWaits, ipcShutdown, ipcServe, ipcRan>>

\* _handle_connection, line 64 and lines 72-73: the loop test; when the
\* event is set the loop ends and the connection is closed
IpcLoopTest(c) ==
    /\ ipcConn[c].pos = "top"
    /\ ipcConn' = [ipcConn EXCEPT ![c] =
          IF ipcShutdown THEN [@ EXCEPT !.pos = "done", !.open = FALSE, !.inbox = <<>>]
          ELSE [@ EXCEPT !.pos = "recv"]]
    /\ UNCHANGED <<notIpc, ipcOffline, ipcWaits, ipcShutdown, ipcServe, ipcRan>>

\* lines 66, 69-71: receive returned a line; dispatch it, send the response
IpcServeLine(c) ==
    /\ ipcConn[c].pos = "recv"
    /\ ipcConn[c].open
    /\ ipcConn[c].inbox # <<>>
    /\ LET raw == Head(ipcConn[c].inbox)
           d   == IpcDispatch(raw)
       IN  /\ ipcConn' = [ipcConn EXCEPT ![c] =
                 [@ EXCEPT !.pos = "top", !.inbox = Tail(@),
                           !.log = Append(@, [req |-> raw, resp |-> d.resp])]]
           /\ ipcRan' = ipcRan \cup d.ran
           /\ ipcShutdown' = (ipcShutdown \/ d.stop)
    /\ UNCHANGED <<notIpc, ipcOffline, ipcWaits, ipcServe>>

\* lines 66-68, 72-73: receive raised ConnectionClosed; the connection is closed
IpcEof(c) ==
    /\ ipcConn[c].pos = "recv"
    /\ ipcConn[c].inbox = <<>>
    /\ ~ipcConn[c].peer \/ ~ipcConn[c].open
    /\ ipcConn' = [ipcConn EXCEPT ![c] = [@ EXCEPT !.pos = "done", !.open = FALSE]]
    /\ UNCHANGED <<notIpc, ipcOffline, ipcWaits, ipcShutdown, ipcServe, ipcRan>>

\* serve_forever, lines 54-55, and _SocketTransport.close, line 97: the event
\* is set, the listening server is closed
IpcServeWake ==
    /\ ipcServe = "waiting"
    /\ ipcShutdown
    /\ ipcServe' = "closing"
    /\ UNCHANGED <<notIpc, ipcOffline, ipcWaits, ipcShutdown, ipcConn, ipcRan>>

\* transport.py line 98: await self._server.wait_closed() returns
IpcWaitClosed ==
    /\ ipcServe = "closing"
    /\ ipcWaits => \A c \in IpcConns : ~ipcConn[c].open
    /\ ipcServe' = "clients"
    /\ UNCHANGED <<notIpc, ipcOffline, ipcWaits, ipcShutdown, ipcConn, ipcRan>>

\* transport.py lines 99-101 and server.py line 56: every client left is
\* closed, what it had not read is lost; serve_forever returns
IpcCloseClients ==
    /\ ipcServe = "clients"
    /\ ipcConn' = [c \in IpcConns |-> [ipcConn[c] EXCEPT !.open = FALSE, !.inbox = <<>>]]
    /\ ipcServe' = "returned"
    /\ UNCHANGED <<notIpc, ipcOffline, ipcWaits, ipcShutdown, ipcRan>>

IpcNext ==
    \/ \E c \in IpcConns : IpcConnect(c)
    \/ \E c \in IpcConns : IpcSend(c)
    \/ \E c \in IpcConns : IpcHangUp(c)
    \/ \E c \in IpcConns : IpcLoopTest(c)
    \/ \E c \in IpcConns : IpcServeLine(c)
    \/ \E c \in IpcConns : IpcEof(c)
    \/ IpcServeWake
    \/ IpcWaitClosed
    \/ IpcCloseClients

SpecIpc == IpcInit /\ [][IpcNext]_vars

\* the event loop runs every task that can run; clients owe nothing
IpcFair ==
    /\ \A c \in IpcConns : WF_vars(IpcLoopTest(c)) /\ WF_vars(IpcServeLine(c)) /\ WF_vars(IpcEof(c))
    /\ WF_vars(IpcServeWake)
    /\ WF_vars(IpcWaitClosed)
    /\ WF_vars(IpcCloseClients)

SpecIpcLive == SpecIpc /\ IpcFair

(***************************************************************************)
(* dg_core/utils/validation.py: resolve_and_check_path.  A path is         *)
(* [abs, parts]: whether it starts at the root, and its components; a      *)
(* resolved path is the sequence of its components below the root.  The    *)
(* file system has the directories /a, /b and /home, the file /b/f and the *)
(* symbolic link /a/ln -> /b; the working directory is /a.                 *)
(***************************************************************************)
PvCwd == <<"a">>

PvHome == <<"home">>

PvLinkFrom == <<"a", "ln">>

PvLinkTo == <<"b">>

PvDirs == {<<>>, <<"a">>, <<"b">>, <<"home">>}

PvFiles == {<<"b", "f">>}

\* Path.expanduser: a leading "~" of a relative path becomes the home directory
expanduser(path) ==
    IF ~path.abs /\ path.parts # <<>> /\ Head(path.parts) = "~"
    THEN [abs |-> TRUE, parts |-> PvHome \o Tail(path.parts)]
    ELSE path

\* Path.resolve(strict=False) of the components rest below the directory
\* stack: ".." goes to the parent (the root is its own), a link is followed
RECURSIVE ResolveFrom(_, _)
ResolveFrom(stack, rest) ==
    IF rest = <<>> THEN stack
    ELSE IF Head(rest) = ".."
    THEN ResolveFrom(IF stack = <<>> THEN <<>> ELSE SubSeq(stack, 1, Len(stack) - 1), Tail(rest))
    ELSE IF Append(stack, Head(rest)) = PvLinkFrom
    THEN ResolveFrom(PvLinkTo, Tail(rest))
    ELSE ResolveFrom(Append(stack, Head(rest)), Tail(rest))

\* _normalise_path, lines 45-46; a relative path starts at the working directory
normalise_path(path) ==
    LET p == expanduser(path)
    IN  ResolveFrom(IF p.abs THEN <<>> ELSE PvCwd, p.parts)

\* _is_relative_to, lines 49-54
is_relative_to(path, root) ==
    Len(root) <= Len(path) /\ SubSeq(path, 1, Len(root)) = root

PvExists(p) == p \in PvDirs \cup PvFiles

\* resolve_and_check_path, lines 72-94
resolve_and_check_path(path, allowed_roots, must_exist, require_file) ==
    LET candidate == expanduser(path)
        resolved  == IF candidate.abs THEN normalise_path(candidate)
                     ELSE ResolveFrom(PvCwd, candidate.parts)
        roots     == IF allowed_roots = <<>> THEN <<>> ELSE allowed_roots[1]
    IN  IF ~candidate.abs /\ \E k \in 1..Len(candidate.parts) : candidate.parts[k] = ".."
        THEN [err |-> "ValueError: Path traversal is not allowed"]
        ELSE IF roots # <<>> /\ ~\E k \in 1..Len(roots) : is_relative_to(resolved, normalise_path(roots[k]))
        THEN [err |-> "ValueError: Path is outside permitted locations"]
        ELSE IF must_exist /\ ~PvExists(resolved)
        THEN [err |-> "ValueError: Path does not exist"]
        ELSE IF require_file = <<TRUE>> /\ PvExists(resolved) /\ resolved \notin PvFiles
        THEN [err |-> "ValueError: Expected file path but found directory"]
        ELSE IF require_file = <<FALSE>> /\ PvExists(resolved) /\ resolved \notin PvDirs
        THEN [err |-> "ValueError: Expected directory path but found file"]
        ELSE [ret |-> resolved]

\* the longest path given
MaxParts == 3

PvNames == {"a", "b", "f", "ln", "..", "~"}

PvPaths == {[abs |-> a, parts |-> p] : a \in BOOLEAN, p \in UNION {[1..n -> PvNames] : n \in 0..MaxParts}}

PvRootLists ==
    {<<>>, <<<<>>>>, <<<<[abs |-> TRUE, parts |-> <<"a">>]>>>>,
     <<<<[abs |-> TRUE, parts |-> <<"a", "ln">>]>>>>,
     <<<<[abs |-> TRUE, parts |-> <<"home">>], [abs |-> FALSE, parts |-> <<>>]>>>>}

PvInit ==
    /\ OnlyPv
    /\ pvArgs \in [path : PvPaths, allowed_roots : PvRootLists, must_exist : BOOLEAN,
                   require_file : {<<>>, <<TRUE>>, <<FALSE>>}]
    /\ pvOut = <<>>

PvCall ==
    /\ pvOut = <<>>
    /\ pvOut' = <<resolve_and_check_path(pvArgs.path, pvArgs.allowed_roots, pvArgs.must_exist,
                                         pvArgs.require_file)>>
    /\ UNCHANGED <<notPv, pvArgs>>

SpecPath == PvInit /\ [][PvCall]_vars

(***************************************************************************)
(* dg_core/daemon/log_stream.py: LogStream and LogSubscription.  A record  *)
(* is the number of the publish call that made it (1, 2, ..); 0 is the     *)
(* sentinel _SENTINEL.  Each method runs as a whole; what                   *)
(* call_soon_threadsafe queued runs later, in the order it was queued.     *)
(***************************************************************************)
LS_SENTINEL == 0

\* deque(maxlen = n).append(x)
DequeAppend(d, x, n) ==
    IF n = 0 THEN <<>>
    ELSE IF Len(d) < n THEN Append(d, x)
    ELSE Append(Tail(d), x)

\* Queue(maxsize).full(): maxsize <= 0 is no limit
QueueFull(q, maxsize) == maxsize > 0 /\ Len(q) >= maxsize

\* LogStream._enqueue, lines 93-104
enqueue(q, record, maxsize) ==
    IF ~QueueFull(q, maxsize) THEN Append(q, record)
    ELSE LET dropped == IF q = <<>> THEN q ELSE Tail(q)
         IN  IF QueueFull(dropped, maxsize) THEN dropped ELSE Append(dropped, record)

\* list(self._backlog)[-max_queue:], and -0 is 0
LastOf(list, n) ==
    IF n = 0 \/ n >= Len(list) THEN list ELSE SubSeq(list, Len(list) - n + 1, Len(list))

\* the loop of subscribe, lines 75-78: the queue the items from i on leave
RECURSIVE Prime(_, _, _, _)
Prime(q, items, i, maxsize) ==
    IF i > Len(items) \/ QueueFull(q, maxsize) THEN q
    ELSE Prime(Append(q, items[i]), items, i + 1, maxsize)

\* LogStream._dispatch over the subscriptions, lines 89-91
dispatch(subs, record, maxsize) ==
    [k \in DOMAIN subs |->
        IF subs[k].registered THEN [subs[k] EXCEPT !.queue = enqueue(@, record, maxsize)]
        ELSE subs[k]]

\* the publish calls made, the backlog length, the subscriptions
MaxPublished == 3

LS_BACKLOG == 2

LsIds == {1, 2}

LsMaxQueues == {1, 2}

LsNoSub == [registered |-> FALSE, closed |-> FALSE, made |-> FALSE, queue |-> <<>>, got |-> <<>>]

LsInit ==
    /\ OnlyLs
    /\ lsLoop = "none"
    /\ lsMaxQueue \in LsMaxQueues
    /\ lsBacklog = <<>>
    /\ lsPending = <<>>
    /\ lsCalls = <<>>
    /\ lsSubs = [k \in LsIds |-> LsNoSub]
    /\ lsCount = 0

\* attach_loop: what was pending is dispatched at once
RECURSIVE DispatchAll(_, _, _)
DispatchAll(subs, records, maxsize) ==
    IF records = <<>> THEN subs
    ELSE DispatchAll(dispatch(subs, Head(records), maxsize), Tail(records), maxsize)

LsAttachLoop ==
    /\ lsLoop = "none"
    /\ lsLoop' = "attached"
    /\ lsSubs' = DispatchAll(lsSubs, lsPending, lsMaxQueue)
    /\ lsPending' = <<>>
    /\ UNCHANGED <<notLs, lsMaxQueue, lsBacklog, lsCalls, lsCount>>

\* publish(record), from any thread
LsPublish ==
    /\ lsLoop # "off"
    /\ lsCount < MaxPublished
    /\ lsCount' = lsCount + 1
    /\ lsBacklog' = DequeAppend(lsBacklog, lsCount + 1, LS_BACKLOG)
    /\ IF lsLoop = "none"
       THEN lsPending' = DequeAppend(lsPending, lsCount + 1, LS_BACKLOG) /\ UNCHANGED lsCalls
       ELSE lsCalls' = Append(lsCalls, lsCount + 1) /\ UNCHANGED lsPending
    /\ UNCHANGED <<notLs, lsLoop, lsMaxQueue, lsSubs>>

\* the event loop runs the oldest queued _dispatch
LsDispatch ==
    /\ lsCalls # <<>>
    /\ lsSubs' = dispatch(lsSubs, Head(lsCalls), lsMaxQueue)
    /\ lsCalls' = Tail(lsCalls)
    /\ UNCHANGED <<notLs, lsLoop, lsMaxQueue, lsBacklog, lsPending, lsCount>>

\* subscribe(): RuntimeError without a loop, else a primed and registered queue
LsSubscribe(k) ==
    /\ lsLoop = "attached"
    /\ ~lsSubs[k].made
    /\ lsSubs' = [lsSubs EXCEPT ![k] =
          [@ EXCEPT !.made = TRUE, !.registered = TRUE,
                    !.queue = Prime(<<>>, LastOf(lsBacklog, lsMaxQueue), 1, lsMaxQueue)]]
    /\ UNCHANGED <<notLs, lsLoop, lsMaxQueue, lsBacklog, lsPending, lsCalls, lsCount>>

\* LogSubscription.__anext__ when it does not block: closed, or an item is there
LsAnext(k) ==
    /\ lsSubs[k].made
    /\ ~lsSubs[k].closed
    /\ lsSubs[k].queue # <<>>
    /\ lsSubs' = [lsSubs EXCEPT ![k] =
          IF Head(@.queue) = LS_SENTINEL
          THEN [@ EXCEPT !.queue = Tail(@), !.closed = TRUE]
          ELSE [@ EXCEPT !.queue = Tail(@), !.got = Append(@, Head(lsSubs[k].queue))]]
    /\ UNCHANGED <<notLs, lsLoop, lsMaxQueue, lsBacklog, lsPending, lsCalls, lsCount>>

\* LogSubscription.aclose and LogStream._remove
LsAclose(k) ==
    /\ lsSubs[k].made
    /\ ~lsSubs[k].closed
    /\ lsSubs' = [lsSubs EXCEPT ![k] =
          [@ EXCEPT !.closed = TRUE, !.registered = FALSE,
                    !.queue = IF QueueFull(@, lsMaxQueue) THEN @ ELSE Append(@, LS_SENTINEL)]]
    /\ UNCHANGED <<notLs, lsLoop, lsMaxQueue, lsBacklog, lsPending, lsCalls, lsCount>>

LsNextStep ==
    \/ LsAttachLoop
    \/ LsPublish
    \/ LsDispatch
    \/ \E k \in LsIds : LsSubscribe(k)
    \/ \E k \in LsIds : LsAnext(k)
    \/ \E k \in LsIds : LsAclose(k)

SpecLog == LsInit /\ [][LsNextStep]_vars

(***************************************************************************)
(* C10: derive_chunk_nonce(b, i) is b with the big-endian u32 i XORed into *)
(* its last four bytes, the nonce the streaming writer/reader computes for *)
(* chunk i.                                                                *)
(***************************************************************************)
C10_DeriveIsXor ==
    nPc = "done" => /\ nOut = nStream
                    /\ nOut = derive_chunk_nonce_xor(nBase, nIndex)

(***************************************************************************)
(* C7: for every secret of the full byte range and every (n, k) with       *)
(* 1 < k <= n, combine_shares on any k distinct shares of split_secret, in *)
(* any order, returns exactly the secret.                                  *)
(***************************************************************************)
C7_ShamirReconstructs ==
    /\ (shPc = "error" => ~(1 < shK /\ shK <= shN))
    /\ (shPc = "combined" => shOut = shSecret)

\* the offset at which frame i of ckFrames ends in ckSink (0 for i = 0)
RECURSIVE FrameEnd(_)
FrameEnd(i) ==
    IF i = 0 THEN 0 ELSE FrameEnd(i - 1) + CHUNK_STRUCT_SIZE + Len(ckFrames[i][2])

\* the cut falls inside a frame header or payload: on no frame boundary
CutInsideFrame == \A i \in 0..Len(ckFrames) : ckCut # FrameEnd(i)

\* the number of frames that lie wholly before the cut
CompleteBeforeCut == Cardinality({i \in 1..Len(ckFrames) : FrameEnd(i) <= ckCut})

(***************************************************************************)
(* C9: on a stream cut inside a frame header or payload, iter_chunks       *)
(* yields exactly the complete frames before the cut and then raises       *)
(* InvalidHeader; it never yields a payload shorter than declared (every   *)
(* pair yielded is the pair that was written).                             *)
(***************************************************************************)
C9_TruncationFatal ==
    /\ (ckPc \in {"reading", "returned", "raised"} =>
           /\ Len(ckYield) <= Len(ckFrames)
           /\ \A i \in 1..Len(ckYield) : ckYield[i] = ckFrames[i])
    /\ (ckPc \in {"reading", "returned", "raised"} /\ CutInsideFrame =>
           /\ ckPc # "returned"
           /\ Len(ckYield) <= CompleteBeforeCut
           /\ (ckPc = "raised" =>
                  /\ Len(ckYield) = CompleteBeforeCut
                  /\ ckErr \in {"InvalidHeader: Truncated chunk header",
                                "InvalidHeader: Truncated ciphertext chunk"}))

C9_Witness ==
    /\ ckPc = "raised"
    /\ CutInsideFrame
    /\ Len(ckYield) = 1
    /\ ckErr = "InvalidHeader: Truncated ciphertext chunk"

(***************************************************************************)
(* C8: once encrypt_file has returned for an input of L bytes and a chunk  *)
(* size c > 0, the envelope holds exactly max(1, ceil(L / c)) frames;      *)
(* frame number i (from 0) carries index i; every frame but the last seals *)
(* exactly c plaintext bytes; the frames seal the input in order; and each *)
(* frame's length field is its plaintext length plus the 16-byte tag.      *)
(***************************************************************************)
FrameLength(f) == ChunkStructUnpack(f.head)[1]

FrameIndex(f) == ChunkStructUnpack(f.head)[2]

CeilDiv(a, b) == (a + b - 1) \div b

C8_FrameLayout ==
    encPc = "done" =>
        LET L  == Len(plain)
            c  == encLoc.chunk
            fs == envFile.frames
            nf == IF L = 0 THEN 1 ELSE CeilDiv(L, c)
        IN  /\ c > 0
            /\ Len(fs) = nf
            /\ \A i \in 1..Len(fs) :
                 /\ FrameIndex(fs[i]) = i - 1
                 /\ FrameLength(fs[i]) = Len(fs[i].payload.pt) + 16
                 /\ i < Len(fs) => Len(fs[i].payload.pt) = c
                 /\ fs[i].payload.pt = SubSeq(plain, (i - 1) * c + 1,
                                              IF i * c <= L THEN i * c ELSE L)

\* a three-byte input in chunks of two: a full frame, then a one-byte frame
C8_Witness ==
    /\ encPc = "done"
    /\ Len(plain) = 3
    /\ encLoc.chunk = 2
    /\ Len(envFile.frames) = 2
    /\ FrameLength(envFile.frames[2]) = 17

(***************************************************************************)
(* C6: in decrypt_file's recipient loop, recipients are attempted in       *)
(* header order (1, 2, ..); a recipient whose try block raises is skipped  *)
(* and raises nothing; the loop stops at the first recipient whose unwrap  *)
(* succeeds, with what that recipient unwrapped as the CEK; and the loop's *)
(* error ("No matching recipient key could unwrap CEK") is raised exactly  *)
(* when every recipient was tried and none succeeded.                      *)
(***************************************************************************)
C6_Started == decPc \in {"try", "finish", "done"} \/ (decPc = "raised" /\ DOMAIN decLoc # {})

C6_Unwraps(j) ==
    DecryptRecipient(decLoc.recips[j], decLoc.enc, decLoc.aead_name, keysAvail) # <<>>

\* the first recipient whose unwrap succeeds, 0 if none
C6_First ==
    LET ok == {j \in 1..Len(decLoc.recips) : C6_Unwraps(j)}
    IN  IF ok = {} THEN 0 ELSE CHOOSE j \in ok : \A m \in ok : j <= m

C6_NoMatch == "InvalidDgdFile: No matching recipient key could unwrap CEK"

DecOver == decPc \in {"done", "raised"}

SomeKeyAvailable == \E j \in 1..Len(encArgs.recipient_kids) : encArgs.recipient_kids[j] \in keysAvail

C1_RoundTrip ==
    (/\ encPc = "done"
     /\ encArgs.threshold_k = <<>>
     /\ encArgs.aad = <<>>
     /\ SomeKeyAvailable
     /\ DecOver)
    => decPc = "done" /\ decOut = <<plain>>

(***************************************************************************)
(* C4: threshold envelopes.  For an envelope written with threshold_k = k  *)
(* >= 2 over n recipients, decrypt_file yields the plaintext when at least *)
(* k recipients' private keys are available, and raises, writing nothing,  *)
(* when fewer than k are (a single key never decrypts).                    *)
(***************************************************************************)
KeysAvailableCount == Cardinality({j \in 1..Len(encArgs.recipient_kids) :
                                      encArgs.recipient_kids[j] \in keysAvail})

C4_Threshold ==
    (/\ encPc = "done"
     /\ encArgs.threshold_k # <<>>
     /\ encArgs.threshold_k[1] >= 2
     /\ encArgs.aad = <<>>
     /\ DecOver)
    => IF KeysAvailableCount >= encArgs.threshold_k[1]
       THEN decPc = "done" /\ decOut = <<plain>>
       ELSE decPc = "raised" /\ decOut = <<>>

(***************************************************************************)
(* C5: user AAD on decrypt.  If the envelope was encrypted with user AAD a *)
(* (its header carries aad_tag), decrypting with a succeeds, and           *)
(* decrypting with another AAD or with none raises InvalidCiphertext and   *)
(* writes nothing; if the header carries no aad_tag and the caller gives   *)
(* an AAD, decrypting raises InvalidCiphertext.                            *)
(***************************************************************************)
C5_UserAad ==
    (/\ encPc = "done"
     /\ encArgs.threshold_k = <<>>
     /\ SomeKeyAvailable
     /\ DecOver
     /\ DOMAIN decLoc # {})
    => LET tagged == "aad_tag" \in DOMAIN decLoc.header
           caller == decLoc.caller_aad
           failed == /\ decPc = "raised"
                     /\ decErr \in {"InvalidCiphertext: AAD mismatch",
                                    "InvalidCiphertext: unexpected AAD"}
                     /\ decOut = <<>>
       IN  /\ tagged /\ caller = encArgs.aad => decPc = "done" /\ decOut = <<plain>>
           /\ tagged /\ caller # encArgs.aad => failed
           /\ ~tagged /\ caller # <<>> => failed

(***************************************************************************)
(* C2: header binding.  For an envelope encrypt_file wrote, take the       *)
(* header with the value of any single field changed (version, aead, enc,  *)
(* nonce, created_at, chunked, chunk_size, total_size, threshold, aad_tag, *)
(* kdf, salt, or a recipient entry): no frame of the envelope then opens   *)
(* under the CEK with the nonce and associated data that the changed       *)
(* header gives (aad_bytes of it, the user AAD, the frame's index).        *)
(***************************************************************************)
OtherOf(x, a, b) == IF x = a THEN b ELSE a

\* the headers that differ from h in the value of exactly one field
HeaderChanges(h) ==
    {[h EXCEPT !.version = "2"],
     [h EXCEPT !.aead = OtherOf(@, "AESGCM", "CHACHA20")],
     [h EXCEPT !.enc = OtherOf(@, "RSA-OAEP", "X25519-KEM")],
     [h EXCEPT !.nonce = b64e(<<9, 9, 9, 9, 9, 9, 9, 9, 9, 9, 9, 9>>)],
     [h EXCEPT !.created_at = @ + 1],
     [h EXCEPT !.chunked = ~@],
     [h EXCEPT !.chunk_size = <<@[1] + 1>>],
     [h EXCEPT !.total_size = <<@[1] + 1>>],
     [h EXCEPT !.threshold = IF @ = <<>> THEN <<2>> ELSE <<@[1] + 1>>],
     [h EXCEPT !.aad_tag = <<b64e(sha256("tampered"))>>],
     [h EXCEPT !.kdf = <<[algorithm |-> "scrypt"]>>],
     [h EXCEPT !.salt = <<b64e(<<9>>)>>],
     [h EXCEPT !.recipients[1].kid = "mallory"]}

\* opening the frame the way lines 122-124 sealed it, with header h
ChunkOpens(h, f) ==
    AeadDecrypt(h.aead, encLoc.cek,
                derive_chunk_nonce(b64d(h.nonce)[1], U32(FrameIndex(f))),
                f.payload,
                Assoc(AadMaterial(h, encArgs.aad), FrameIndex(f))) # <<>>

C2_HeaderBinding ==
    encPc = "done" =>
        \A h \in HeaderChanges(encLoc.header) :
            \A i \in 1..Len(envFile.frames) : ~ChunkOpens(h, envFile.frames[i])

(***************************************************************************)
(* C3: frame reordering is detected.  When the frames of an envelope that  *)
(* StreamEncryptor wrote are no longer in the order they were written      *)
(* (each frame intact, its index field included), StreamDecryptor raises;  *)
(* and what it has written is always a prefix of the input, so plaintext   *)
(* chunks never come out in another order than they were encrypted in.     *)
(***************************************************************************)
FramesReordered == \E i \in 1..Len(envFile.frames) : FrameIndex(envFile.frames[i]) # i - 1

IsPrefix(a, b) == Len(a) <= Len(b) /\ a = SubSeq(b, 1, Len(a))

C3_ReorderDetected ==
    (/\ encPc = "done"
     /\ encLoc.fresh
     /\ decPc \in {"chunks", "done", "raised"})
    => /\ decOut # <<>> => IsPrefix(decOut[1], plain)
       /\ FramesReordered /\ DecOver => decPc = "raised"

(***************************************************************************)
(* C11: for a fixed base nonce, derive_chunk_nonce sends distinct chunk    *)
(* indices to distinct nonces, also when counter + index wraps past 2^32:  *)
(* no other index gives the nonce derived for nIndex.                      *)
(***************************************************************************)
NonceIndexes == {U32FromBytes(c) : c \in NonceCounters}

C11_NonceInjective ==
    nPc \in {"derived", "done"} =>
        \A j \in NonceIndexes : j # nIndex => derive_chunk_nonce(nBase, j) # nOut

\* the counter of the base nonce plus the index wraps past 2^32
C11_Witness ==
    /\ nPc = "derived"
    /\ nBase[9] = 255
    /\ nIndex[1] >= 65280
    /\ nOut[9] < 255


(***************************************************************************)
(* C12: canonical header stability.  For every FileHeader that passes      *)
(* validate(), from_json(to_json(h)) equals h field by field, and to_json  *)
(* of the re-parsed header equals h.to_json() byte for byte.               *)
(***************************************************************************)
C12_HeaderRoundTrip ==
    hdrBy = "to_json" =>
        /\ hdrParsed # <<>> => hdrParsed[1] = [h |-> hdrIn]
        /\ hdrRaw2 # <<>> => hdrRaw2 = hdrRaw


(***************************************************************************)
(* C13: header validation predicate.  FileHeader.from_json accepts a       *)
(* header JSON exactly when its version is "1", its aead and enc are       *)
(* supported, its nonce decodes to 12 bytes, it has recipients, each       *)
(* recipient is consistent with its scheme, and a chunked header carries a *)
(* positive chunk_size; it raises InvalidHeader otherwise.                 *)
(***************************************************************************)
RecipientConsistent(r) ==
    /\ r.scheme \in SUPPORTED_ENC
    /\ r.scheme = "X25519-KEM" => TruthyText(r.ephemeral_public) /\ TruthyText(r.nonce)
    /\ r.scheme = "RSA-OAEP" => r.ephemeral_public = <<>> /\ r.nonce = <<>>

\* the predicate, on the header whose fields the JSON carries
HeaderAcceptable(h) ==
    /\ h.version = "1"
    /\ h.aead \in {"AESGCM", "CHACHA20"}
    /\ h.enc \in {"RSA-OAEP", "X25519-KEM"}
    /\ Len(h.nonce.data) = 12
    /\ h.recipients # <<>>
    /\ \A i \in 1..Len(h.recipients) : RecipientConsistent(h.recipients[i])
    /\ h.chunked => (h.chunk_size # <<>> /\ h.chunk_size[1] > 0)

C13_Validation ==
    hdrParsed # <<>> => (("h" \in DOMAIN hdrParsed[1]) <=> HeaderAcceptable(hdrIn))


(***************************************************************************)
(* C14: legacy aliases on read, canonical names on write.  The parsed      *)
(* header and the way decrypt_file ends are the same whether the fields of *)
(* a header are spelled canonically or with their legacy alias, and a      *)
(* header written by to_json() contains canonical names only.              *)
(***************************************************************************)
CanonicalHeaderNames ==
    {"version", "aead", "enc", "nonce", "created_at", "chunked", "recipients",
     "chunk_size", "total_size", "threshold", "aad_tag", "kdf", "salt"}

CanonicalRecipientNames == {"kid", "scheme", "ek", "epk", "nonce", "share_index"}

OnlyCanonicalNames(raw) ==
    /\ DOMAIN json_loads(raw) \subseteq CanonicalHeaderNames
    /\ \A i \in 1..Len(json_loads(raw).recipients) :
          DOMAIN json_loads(raw).recipients[i] \subseteq CanonicalRecipientNames

\* from_json gives the legacy spelling the result it gives the canonical one
SameParse ==
    (hdrBy = "legacy" /\ hdrParsed # <<>>) =>
        hdrParsed[1] = FileHeaderFromJson(json_dumps(FileHeaderToDict(hdrIn)), hdrNow)

\* decrypt_file ends on the canonical spelling as it ended on the legacy one
SameDecryption ==
    (hdrPc = "again" /\ decPc \in {"done", "raised"}) =>
        hdrFirst[1] = [err |-> decErr, out |-> decOut]

WritesCanonical ==
    /\ hdrRaw2 # <<>> => OnlyCanonicalNames(hdrRaw2[1])
    /\ (hdrBy = "to_json" /\ hdrRaw # <<>>) => OnlyCanonicalNames(hdrRaw[1])

C14_Aliases == SameParse /\ SameDecryption /\ WritesCanonical


(***************************************************************************)
(* C15: sealed private key round trip.  Unsealing the blob write_keypair   *)
(* wrote with the passphrase it was sealed under returns the same key;     *)
(* unsealing with another passphrase fails with InvalidPassphrase and      *)
(* returns no key material.                                                *)
(***************************************************************************)
\* the pair whose PEM write_keypair stored under kid
PairOf(kid) == CHOOSE kp \in KsKeyPairs : make_kid(kp.kind, public_pem(kp)) = kid

\* the passphrase the blob of kid was sealed under
SealedUnder(kid) == b64d(json_loads(ksPriv[kid][1].content).ct)[1].key.pw

Unsealed == ksOp.op \in {"load", "load_prompt"} /\ ksPriv[ksOp.kid[1]] # <<>>

RightPassphraseOpens ==
    (Unsealed /\ ksOp.arg = SealedUnder(ksOp.kid[1])) =>
        /\ ksOp.err = ""
        /\ ksOp.ret = <<[kind |-> "privkey", key |-> PairOf(ksOp.kid[1])]>>

WrongPassphraseFails ==
    (Unsealed /\ ksOp.arg # SealedUnder(ksOp.kid[1])) =>
        /\ ksOp.err = "InvalidPassphrase"
        /\ ksOp.ret = <<>>

C15_SealedRoundTrip == RightPassphraseOpens /\ WrongPassphraseFails


(***************************************************************************)
(* C16: key store consistency.  After a key creation, whether it completed *)
(* or failed part-way, the three facts about its kid agree: the public PEM *)
(* exists, the sealed private blob exists, the index has a record.         *)
(***************************************************************************)
HasRecord(index, kid) == \E i \in 1..Len(index) : index[i].kid = kid

FactsAgree(kid) ==
    /\ (ksPub[kid] # <<>>) = (ksPriv[kid] # <<>>)
    /\ (ksPub[kid] # <<>>) = HasRecord(ksIndex, kid)

C16_StoreConsistent == ksOp.op = "create" => FactsAgree(ksOp.kid[1])

(***************************************************************************)
(* C17: index upsert.  The index never holds two records of one kid; after *)
(* register(kid, label, alg) the record of kid carries that label and alg, *)
(* and the records of the other kids are what they were.                   *)
(***************************************************************************)
RecordsOf(index, kid) == SelectSeq(index, LAMBDA r : r.kid = kid)

C17_IndexUpsert ==
    /\ \A i, j \in 1..Len(ksIndex) : i # j => ksIndex[i].kid # ksIndex[j].kid
    /\ ksOp.op = "register" =>
         /\ Len(RecordsOf(ksIndex, ksOp.kid[1])) = 1
         /\ RecordsOf(ksIndex, ksOp.kid[1])[1].label = ksOp.arg.label
         /\ RecordsOf(ksIndex, ksOp.kid[1])[1].alg = ksOp.arg.alg
         /\ \A k \in KsKids \ {ksOp.kid[1]} :
               RecordsOf(ksIndex, k) = RecordsOf(ksOp.before[1].index, k)

\* a register call for a kid that had a record under another label, with
\* the record of another kid beside it
C17_Witness ==
    /\ ksOp.op = "register"
    /\ Len(ksIndex) = 2
    /\ HasRecord(ksOp.before[1].index, ksOp.kid[1])
    /\ RecordsOf(ksOp.before[1].index, ksOp.kid[1])[1].label # ksOp.arg.label
    /\ RecordsOf(ksOp.before[1].index, ksOp.kid[1])[1].alg # ksOp.arg.alg

(***************************************************************************)
(* C18: revocation.  After revoke of a key that exists the index has no    *)
(* record of it and neither its public PEM nor its sealed private blob is  *)
(* on disk; the records and files of the other keys are unchanged.         *)
(***************************************************************************)
KeyExisted(kid) ==
    /\ HasRecord(ksOp.before[1].index, kid)
    /\ ksOp.before[1].pub[kid] # <<>>
    /\ ksOp.before[1].priv[kid] # <<>>

C18_Revoked ==
    (ksOp.op = "revoke" /\ KeyExisted(ksOp.kid[1])) =>
        /\ ~HasRecord(ksIndex, ksOp.kid[1])
        /\ ksPub[ksOp.kid[1]] = <<>>
        /\ ksPriv[ksOp.kid[1]] = <<>>
        /\ \A k \in KsKids \ {ksOp.kid[1]} :
              /\ RecordsOf(ksIndex, k) = RecordsOf(ksOp.before[1].index, k)
              /\ ksPub[k] = ksOp.before[1].pub[k]
              /\ ksPriv[k] = ksOp.before[1].priv[k]

(***************************************************************************)
(* C19: expiry gate.  policy.enforce with a key as actor rejects when the  *)
(* expiry of the key's index record is at or before now, 0 included; it    *)
(* does not reject a key with no expiry or a later one; it never touches   *)
(* the index or the files.                                                 *)
(***************************************************************************)
Enforced ==
    /\ ksOp.op = "enforce"
    /\ ksOp.arg.op \in ALLOWED_OPS
    /\ ksOp.kid # <<>>
    /\ HasRecord(ksIndex, ksOp.kid[1])

ExpiredAt(rec, now) == "expiry" \in DOMAIN rec /\ rec.expiry <= now

C19_ExpiryGate ==
    Enforced =>
        /\ ExpiredAt(RecordsOf(ksIndex, ksOp.kid[1])[1], ksOp.arg.now)
              => ksOp.err = "PermissionError: Key expired"
        /\ ~ExpiredAt(RecordsOf(ksIndex, ksOp.kid[1])[1], ksOp.arg.now) => ksOp.err = ""
        /\ ksOp.before[1] = KsBefore

(***************************************************************************)
(* C20: private key file permissions.  A private-key file the key store    *)
(* wrote has mode 0o600 after the write, and a read of a private-key file  *)
(* whose mode is not 0o600 is rejected with no key returned; for the       *)
(* sealed blobs of KeyStore and for the files of FileKeyStore.             *)
(***************************************************************************)
WrittenPrivate ==
    /\ (ksOp.op = "create" /\ ksOp.err = "") => ksPriv[ksOp.kid[1]][1].mode = PRIVATE_MODE
    /\ ksOp.op = "fk_store" => fkFiles[ksOp.kid[1]][1].mode = PRIVATE_MODE

ReadGuarded ==
    /\ (/\ ksOp.op \in {"load", "load_prompt"}
        /\ ksPriv[ksOp.kid[1]] # <<>>
        /\ ksPriv[ksOp.kid[1]][1].mode # PRIVATE_MODE) => (ksOp.err # "" /\ ksOp.ret = <<>>)
    /\ (/\ ksOp.op = "fk_load"
        /\ fkFiles[ksOp.kid[1]] # <<>>
        /\ fkFiles[ksOp.kid[1]][1].mode # PRIVATE_MODE) => (ksOp.err # "" /\ ksOp.ret = <<>>)

C20_PrivateMode == WrittenPrivate /\ ReadGuarded


(***************************************************************************)
(* C21: unknown algorithm names are rejected.  encrypt_file does not       *)
(* complete when aead, enc or oaep_hash is not one of the supported names, *)
(* whatever the other arguments are (an unknown oaep_hash with X25519-KEM  *)
(* included).                                                              *)
(***************************************************************************)
ArgAead == IF TruthyStr(encArgs.aead) THEN encArgs.aead[1] ELSE CONFIG_crypto_aead

ArgOaep == IF TruthyStr(encArgs.oaep_hash) THEN encArgs.oaep_hash[1] ELSE CONFIG_crypto_rsa_oaep_hash

NamesKnown ==
    /\ ArgAead \in {"AESGCM", "CHACHA20"}
    /\ encArgs.enc \in {"RSA-OAEP", "X25519-KEM"}
    /\ ArgOaep \in {"SHA1", "SHA256", "SHA512"}

C21_UnknownRejected == encPc = "done" => NamesKnown

(***************************************************************************)
(* C22: no new OAEP-SHA1 ciphertexts.  A call of encrypt_file that wraps   *)
(* with RSA-OAEP and oaep_hash SHA1 is refused, and no header written      *)
(* carries a recipient entry wrapped with OAEP-SHA1.                       *)
(***************************************************************************)
WrappedWithSha1(raw) ==
    \E i \in 1..Len(json_loads(raw).recipients) :
        LET wrapped == b64d(json_loads(raw).recipients[i].ek)[1]
        IN  wrapped.kind = "rsa" /\ wrapped.hash = "SHA1"

C22_NoNewSha1 ==
    /\ (encArgs.enc = "RSA-OAEP" /\ ArgOaep = "SHA1") => encPc # "done"
    /\ (encPc \in {"loop", "done"} /\ envFile.header # <<>>) => ~WrappedWithSha1(envFile.header[1])


(***************************************************************************)
(* C29: failed encryption leaves the output untouched.  Whenever           *)
(* HybridEncryptor.encrypt_file has raised, the output path is as it was   *)
(* before the call: here, it does not exist.                               *)
(***************************************************************************)
C29_OutputUntouched == encPc = "raised" => envFile = NoFile


(***************************************************************************)
(* C27: resume appends a decryptable continuation.  When                   *)
(* StreamEncryptor.encrypt_file has run with resume = True on the partial  *)
(* envelope an earlier run for the same input, recipient and chunk size    *)
(* left, StreamDecryptor.decrypt_file of the file as written ends without  *)
(* error and its output is the input plaintext.                            *)
(***************************************************************************)
RunFrames ==
    LET c == encArgs.chunk_size
        n == IF c = 0 \/ plain = <<>> THEN 0 ELSE IF c < 0 THEN 1 ELSE (Len(plain) + c - 1) \div c
    IN  [i \in 1..n |-> StreamFrame(encLoc.aead_name, encLoc.cek, encLoc.content_nonce, i - 1,
                                    FileRead(plain, (i - 1) * c, c))]

ResumedSameInput ==
    /\ encPc = "done"
    /\ encArgs.resume
    /\ ~encLoc.fresh
    /\ plain = <<1, 2, 3>>
    /\ encArgs.recipient_kids = <<"r1">>
    /\ encArgs.enc = "RSA-OAEP"
    /\ encArgs.aead = <<>>
    /\ encArgs.chunk_size = 1
    /\ envFile.frames = StaleFile.frames \o RunFrames
    /\ "r1" \in keysAvail

C27_ResumeDecrypts ==
    (ResumedSameInput /\ decPc \in {"done", "raised"}) => (decPc = "done" /\ decOut = <<plain>>)


(***************************************************************************)
(* C28: whole-frame truncation is detected.  Whenever decrypt_file ends    *)
(* without error on an envelope that encrypt_file wrote whole (header and  *)
(* every chunk of the input), the number of plaintext bytes written equals *)
(* the total_size of the header; a file cut on a frame boundary does not   *)
(* decrypt to a shorter plaintext.                                         *)
(***************************************************************************)
WroteWhole == encPc = "done" /\ encLoc.fresh /\ encArgs.chunk_size # 0

C28_TruncationDetected ==
    (WroteWhole /\ decPc = "done") => Len(decOut[1]) = json_loads(envFile.header[1]).total_size


(***************************************************************************)
(* C23: detached signature round trip.  After SignerService.sign wrote a   *)
(* signature with an Ed25519 key of the store, SignerService.verify        *)
(* returns True while the file and the signature are as sign left them,    *)
(* and returns False, without raising, once the file bytes or the          *)
(* signature have been changed.                                            *)
(***************************************************************************)
Verified == sgOp.op = "verify" /\ sgSigned # <<>>

AsSigned == sgData = sgSigned[1].data /\ sgSig = <<sgSigned[1].sig>>

C23_SignRoundTrip ==
    Verified => /\ sgOp.err = ""
                /\ sgOp.ret = <<AsSigned>>


(***************************************************************************)
(* C24: policy-only offline mode.  With network.policy_only_offline set,   *)
(* no scan and no redaction is performed and every core.scan and           *)
(* core.redact request that is answered is answered with error -32010;     *)
(* core.shutdown is still served.                                          *)
(***************************************************************************)
IpcAnswers == {e \in UNION {{ipcConn[c].log[i] : i \in 1..Len(ipcConn[c].log)} : c \in IpcConns} : e.resp # <<>>}

C24_OfflineBlocks ==
    ipcOffline =>
        /\ ipcRan = {}
        /\ \A e \in IpcAnswers :
              /\ e.req.method \in {"core.scan", "core.redact"} => e.resp[1].error = <<-32010>>
              /\ e.req.method = "core.shutdown" => e.resp[1].result = "shutting_down"

(***************************************************************************)
(* C25: shutdown liveness.  A core.shutdown request with an id that was    *)
(* served is answered with {status: shutting_down} under that id; once the *)
(* shutdown event is set serve_forever eventually returns, whatever        *)
(* connections are open and idle; and after it returned no connection      *)
(* handler serves requests.                                                *)
(***************************************************************************)
ShutdownAnswered ==
    \A c \in IpcConns : \A i \in 1..Len(ipcConn[c].log) :
        LET e == ipcConn[c].log[i]
        IN  (e.req.json /\ e.req.method = "core.shutdown" /\ e.req.id # <<>>)
                => e.resp = <<IpcResult(e.req.id, "shutting_down")>>

NoneServing == \A c \in IpcConns : ~ipcConn[c].open

C25_ShutdownLive ==
    /\ []ShutdownAnswered
    /\ ipcShutdown ~> (ipcServe = "returned")
    /\ [](ipcServe = "returned" => NoneServing)


(***************************************************************************)
(* C26: path traversal rejection.  resolve_and_check_path raises           *)
(* ValueError for every path with a ".." component, relative or absolute;  *)
(* and with allowed_roots given, a path it returns lies inside one of the  *)
(* resolved roots.                                                         *)
(***************************************************************************)
HasDotDot(path) == \E k \in 1..Len(path.parts) : path.parts[k] = ".."

InsideRoots(resolved, roots) ==
    \E k \in 1..Len(roots) : is_relative_to(resolved, normalise_path(roots[k]))

RootsEnforced ==
    (pvArgs.allowed_roots # <<>> /\ pvArgs.allowed_roots[1] # <<>> /\ "ret" \in DOMAIN pvOut[1])
        => InsideRoots(pvOut[1].ret, pvArgs.allowed_roots[1])

C26_TraversalRejected ==
    pvOut # <<>> =>
        /\ HasDotDot(pvArgs.path) => "err" \in DOMAIN pvOut[1]
        /\ RootsEnforced


(***************************************************************************)
(* C30: log fan-out delivers each record at most once and in order.  The   *)
(* records a subscriber has received are in publish order with none        *)
(* repeated, and what its queue holds follows them in the same way; the    *)
(* queue never holds more than max_queue records.                          *)
(***************************************************************************)
Increasing(seq) == \A i, j \in 1..Len(seq) : i < j => seq[i] < seq[j]

Delivered(k) == lsSubs[k].got \o SelectSeq(lsSubs[k].queue, LAMBDA r : r # LS_SENTINEL)

C30_AtMostOnceInOrder ==
    lsLoop # "off" =>
        \A k \in LsIds : /\ Increasing(Delivered(k))
                         /\ Len(lsSubs[k].queue) <= lsMaxQueue

====
